---- MODULE Spec2Model ----
(***************************************************************************)
(* A model of briefly's structural extractor (src/src/lib/parser.js).      *)
(*                                                                         *)
(* parseFile(filePath, content, options) dispatches on the extension to    *)
(* parseJavaScript (acorn + acorn-walk), parsePython (line regexes) or     *)
(* parseJSON (JSON.parse + getJSONStructure).  Each dispatch target is      *)
(* checked under a specification of its own:                               *)
(*   Spec      ECMAScript-family files                                     *)
(*   SpecJSON  .json files, nested values (depth truncation)               *)
(*   SpecKeys  .json files, wide objects (key truncation)                  *)
(*   SpecPy    .py files                                                   *)
(*                                                                         *)
(* JavaScript values that TLA+ has no counterpart for:                     *)
(*   undefined            the string Undefined                             *)
(*   an absent property   the string Absent / the record NoStructure       *)
(*   null (result.ast)    the record NullAst                               *)
(***************************************************************************)
EXTENDS Integers, Sequences, FiniteSets, TLC

VARIABLES
    ext,        \* path.extname(filePath)
    content,    \* the file content handed to parseFile (see each Spec)
    content2,   \* a second content, parsed by a second call (SpecJSON)
    options,    \* the options object of the call: [showAst |-> BOOLEAN] for parseFile
    result,     \* the value the call returned or the error it threw, NoResult before
    result2,    \* the record the second call returned (SpecJSON)
    pc,         \* "edit": input being chosen; "returned" / "raised": the call's completion
    dirPath,    \* the directory path handed to scanDirectory / analyzeProject
    disk,       \* the file system the scanner and the analyzer read
    files,      \* the array of file paths handed to the scanner's and analyzer's functions
    out,        \* the outside effects of the call: the library calls made, or what a
                \* command has shown, written and exited with
    env         \* process.env and the state of the OpenAI API, as a command finds them

parserVars == <<ext, content, content2, options, result, result2>>
projectVars == <<dirPath, disk, files, out, env>>
vars == <<ext, content, content2, options, result, result2, pc, dirPath, disk, files, out,
          env>>

Undefined == "<undefined>"
Absent == "<absent>"
NullAst == [type |-> "null"]
NoStructure == [absent |-> TRUE]
NoResult == [none |-> TRUE]
NoNode == [type |-> "none"]
NoDisk == [none |-> TRUE]
NoOutput == [none |-> TRUE]
NoEnv == [none |-> TRUE]

\* No project is being scanned: the state of the scanner's variables under the
\* specifications of parseFile.
NoProject ==
    /\ dirPath = <<>>
    /\ disk = NoDisk
    /\ files = <<>>
    /\ out = NoOutput
    /\ env = NoEnv

\* Bounds of the model.
MaxItems == 2
MaxNesting == 6
MaxKeys == 12
MaxWraps == 4
MaxLines == 2

(***************************************************************************)
(* parseFile: the record every branch starts from (parser.js 14-27).       *)
(* filePath, fileName, lines and size are copied from the arguments and    *)
(* read by no branch; the model keeps the extension only.                  *)
(***************************************************************************)
newResult(e) ==
    [extension |-> e, exports |-> <<>>, imports |-> <<>>, functions |-> <<>>,
     classes |-> <<>>, variables |-> <<>>, comments |-> <<>>, ast |-> NullAst,
     parseError |-> Absent, structure |-> NoStructure]

Return(v) == [completion |-> "return", value |-> v]
Throw(m) == [completion |-> "throw", value |-> NoResult, message |-> m]

ESExtensions == {".js", ".mjs", ".cjs", ".ts", ".tsx", ".jsx"}

(***************************************************************************)
(* ECMAScript content.  The content is a sequence of top-level items, one  *)
(* per source line: a comment, a statement (given by the node acorn builds *)
(* for it), or a malformed fragment ("Bad") at which acorn.parse raises a  *)
(* SyntaxError.  A "Deep" statement parses but is nested beyond what       *)
(* walk.simple's recursion can descend (RangeError during the walk).       *)
(***************************************************************************)
Comment(block) == [type |-> "Comment", block |-> block]
Bad == [type |-> "Bad"]
Deep == [type |-> "Deep"]
Identifier(n) == [type |-> "Identifier", name |-> n]
ObjectPattern == [type |-> "ObjectPattern"]
AssignmentPattern(n) == [type |-> "AssignmentPattern", left |-> Identifier(n)]
Literal == [type |-> "Literal"]
ArrowFunctionExpression(ps) == [type |-> "ArrowFunctionExpression", params |-> ps]
FunctionExpression(ps) == [type |-> "FunctionExpression", params |-> ps]
ImportSpecifier(imported, local) ==
    [type |-> "ImportSpecifier", imported |-> Identifier(imported),
     local |-> Identifier(local)]
ImportDefaultSpecifier(local) ==
    [type |-> "ImportDefaultSpecifier", local |-> Identifier(local)]
ImportDeclaration(src, specs) ==
    [type |-> "ImportDeclaration", source |-> src, specifiers |-> specs]
FunctionDeclaration(id, ps, body) ==
    [type |-> "FunctionDeclaration", id |-> id, params |-> ps, body |-> body]
MethodDefinition(key, kind, static) ==
    [type |-> "MethodDefinition", key |-> Identifier(key), kind |-> kind,
     static |-> static]
PropertyDefinition(key) == [type |-> "PropertyDefinition", key |-> Identifier(key)]
ClassDeclaration(id, super, body) ==
    [type |-> "ClassDeclaration", id |-> id, superClass |-> super, body |-> body]
VariableDeclarator(id, init) == [id |-> id, init |-> init]
VariableDeclaration(kind, decls) ==
    [type |-> "VariableDeclaration", kind |-> kind, declarations |-> decls]
ExportSpecifier(local, exported) == [local |-> local, exported |-> exported]
ExportNamedDeclaration(decl, specs) ==
    [type |-> "ExportNamedDeclaration", declaration |-> decl, specifiers |-> specs]
ExportDefaultDeclaration(decl) ==
    [type |-> "ExportDefaultDeclaration", declaration |-> decl]

\* node.name / node.id?.name / p.left?.name: undefined when the property is missing.
NameOf(node) == IF "name" \in DOMAIN node THEN node.name ELSE Undefined
IdNameOf(node) ==
    IF "id" \in DOMAIN node /\ node.id.type = "Identifier" THEN node.id.name ELSE Undefined
LeftNameOf(node) == IF "left" \in DOMAIN node THEN NameOf(node.left) ELSE Undefined
ImportedNameOf(spec) ==
    IF "imported" \in DOMAIN spec THEN NameOf(spec.imported) ELSE Undefined
\* a || b on strings: undefined is falsy.
OrElse(a, b) == IF a = Undefined THEN b ELSE a

(***************************************************************************)
(* acorn.parse(content, {..., onComment}) (parser.js 56-68).  The tokenizer *)
(* calls onComment for each comment as it skips it, so the comments that   *)
(* precede a malformed fragment are pushed onto result.comments before the *)
(* SyntaxError is raised.  On success the tree's body holds the statements *)
(* in order, each with the line it starts on.                              *)
(***************************************************************************)
RECURSIVE FirstIndex(_, _, _)
FirstIndex(seq, t, i) ==
    IF i > Len(seq) THEN 0
    ELSE IF seq[i].type = t THEN i
    ELSE FirstIndex(seq, t, i + 1)

\* mutant: the comments of the whole file, whatever the tokenizer reached
RECURSIVE onComment_all(_, _, _)
onComment_all(items, upto, i) ==
    IF i > Len(items) THEN <<>>
    ELSE IF items[i].type = "Comment"
         THEN <<[type |-> IF items[i].block THEN "block" ELSE "line", line |-> i]>>
              \o onComment_all(items, upto, i + 1)
         ELSE onComment_all(items, upto, i + 1)

RECURSIVE onComment(_, _, _)
onComment(items, upto, i) ==
    IF i > upto THEN <<>>
    ELSE IF items[i].type = "Comment"
         THEN <<[type |-> IF items[i].block THEN "block" ELSE "line", line |-> i]>>
              \o onComment(items, upto, i + 1)
         ELSE onComment(items, upto, i + 1)

RECURSIVE Statements(_, _)
Statements(items, i) ==
    IF i > Len(items) THEN <<>>
    ELSE IF items[i].type = "Comment" THEN Statements(items, i + 1)
    ELSE <<[node |-> items[i], line |-> i]>> \o Statements(items, i + 1)

acornParse(items) ==
    LET badAt == FirstIndex(items, "Bad", 1)
    IN  IF badAt # 0
        THEN [threw |-> TRUE, message |-> "Unexpected token",
              comments |-> onComment(items, badAt - 1, 1),
              ast |-> NullAst]
        ELSE [threw |-> FALSE, message |-> Absent,
              comments |-> onComment(items, Len(items), 1),
              ast |-> [type |-> "Program", body |-> Statements(items, 1)]]

(***************************************************************************)
(* The visitors handed to walk.simple (parser.js 76-188).  res is the      *)
(* result object they push onto.                                           *)
(***************************************************************************)
Push(res, field, rec) == [res EXCEPT ![field] = Append(@, rec)]

RECURSIVE PushAll(_, _, _)
PushAll(res, field, recs) ==
    IF recs = <<>> THEN res
    ELSE PushAll(Push(res, field, Head(recs)), field, Tail(recs))

\* (p) => p.name || p.left?.name || 'param'
ParamName(p) == OrElse(OrElse(NameOf(p), LeftNameOf(p)), "param")
ParamNames(ps) == [i \in 1..Len(ps) |-> ParamName(ps[i])]

\* parser.js 76-86
visitImportDeclaration(node, line, res) ==
    Push(res, "imports",
         [source |-> node.source,
          specifiers |->
              [i \in 1..Len(node.specifiers) |->
                  [type |-> node.specifiers[i].type,
                   name |-> node.specifiers[i].local.name,
                   imported |-> ImportedNameOf(node.specifiers[i])]],
          line |-> line])

\* parser.js 88-121
visitExportNamedDeclaration(node, line, res) ==
    LET d == node.declaration
        fromDecl ==
            IF d.type = "FunctionDeclaration"
            THEN <<[type |-> "function", name |-> IdNameOf(d), line |-> line]>>
            ELSE IF d.type = "VariableDeclaration"
            THEN [i \in 1..Len(d.declarations) |->
                    [type |-> "variable", name |-> NameOf(d.declarations[i].id),
                     line |-> line]]
            ELSE IF d.type = "ClassDeclaration"
            THEN <<[type |-> "class", name |-> IdNameOf(d), line |-> line]>>
            ELSE <<>>
        fromSpecs ==
            [i \in 1..Len(node.specifiers) |->
                [type |-> "reexport", name |-> node.specifiers[i].exported,
                 line |-> line]]
    IN  PushAll(res, "exports", fromDecl \o fromSpecs)

\* parser.js 123-129
visitExportDefaultDeclaration(node, line, res) ==
    Push(res, "exports",
         [type |-> "default",
          name |-> OrElse(OrElse(NameOf(node.declaration), IdNameOf(node.declaration)),
                          "anonymous"),
          line |-> line])

\* parser.js 131-140
visitFunctionDeclaration(node, line, res) ==
    Push(res, "functions",
         [name |-> OrElse(IdNameOf(node), "anonymous"),
          params |-> ParamNames(node.params),
          line |-> line,
          exported |-> FALSE])

\* parser.js 142-162
visitClassDeclaration(node, line, res) ==
    LET defs == SelectSeq(node.body, LAMBDA item : item.type = "MethodDefinition")
        methods == [i \in 1..Len(defs) |->
                      [name |-> defs[i].key.name, kind |-> defs[i].kind,
                       static |-> defs[i].static]]
    IN  Push(res, "classes",
             [name |-> IdNameOf(node), superClass |-> NameOf(node.superClass),
              methods |-> methods, line |-> line])

\* parser.js 164-188
\* mutant: only an arrow function makes a declarator a function
isFunction_arrowOnly(decl) == decl.init.type = "ArrowFunctionExpression"

\* decl.init && (decl.init.type === .. || ..): a declarator without
\* initializer has init NoNode
isFunction(decl) ==
    decl.init.type \in {"ArrowFunctionExpression", "FunctionExpression"}

declaratorRecord(decl, kind, line, res) ==
    IF decl.id.type = "Identifier"
    THEN IF isFunction(decl)
         THEN Push(res, "functions",
                   [name |-> decl.id.name,
                    params |-> ParamNames(decl.init.params),
                    arrow |-> decl.init.type = "ArrowFunctionExpression",
                    line |-> line])
         ELSE Push(res, "variables",
                   [name |-> decl.id.name, kind |-> kind, line |-> line])
    ELSE res

RECURSIVE visitVariableDeclaration(_, _, _, _)
visitVariableDeclaration(node, line, res, i) ==
    IF i > Len(node.declarations) THEN res
    ELSE visitVariableDeclaration(
             node, line, declaratorRecord(node.declarations[i], node.kind, line, res),
             i + 1)

(***************************************************************************)
(* walk.simple(ast, visitors) (parser.js 75): a post-order walk, a node's  *)
(* children before the node's own visitor.  Walking a Deep statement       *)
(* overflows the stack: the walk stops there with what was pushed so far.  *)
(***************************************************************************)
RECURSIVE walkNode(_, _, _)
RECURSIVE walkBody(_, _, _)
walkNode(node, line, res) ==
    CASE node.type = "ImportDeclaration" -> visitImportDeclaration(node, line, res)
      [] node.type = "ExportNamedDeclaration" ->
            visitExportNamedDeclaration(node, line,
                walkNode(node.declaration, line, res))
      [] node.type = "ExportDefaultDeclaration" ->
            visitExportDefaultDeclaration(node, line,
                walkNode(node.declaration, line, res))
      [] node.type = "FunctionDeclaration" ->
            visitFunctionDeclaration(node, line, walkBody(node.body, line, res))
      [] node.type = "ClassDeclaration" -> visitClassDeclaration(node, line, res)
      [] node.type = "VariableDeclaration" ->
            visitVariableDeclaration(node, line, res, 1)
      [] OTHER -> res

walkBody(body, line, res) ==
    IF body = <<>> THEN res
    ELSE walkBody(Tail(body), line, walkNode(Head(body), line, res))

RECURSIVE walkProgram(_, _)
walkProgram(stmts, res) ==
    IF stmts = <<>> THEN [threw |-> FALSE, message |-> Absent, res |-> res]
    ELSE IF Head(stmts).node.type = "Deep"
    THEN [threw |-> TRUE, message |-> "Maximum call stack size exceeded", res |-> res]
    ELSE walkProgram(Tail(stmts), walkNode(Head(stmts).node, Head(stmts).line, res))

walkSimple(ast, res) == walkProgram(ast.body, res)

(***************************************************************************)
(* Mark exported functions (parser.js 191-198).                            *)
(***************************************************************************)
\* mutant: only the entries of declared functions and classes count
exportedNames_declared(exports) ==
    {exports[i].name : i \in {j \in 1..Len(exports) :
                                exports[j].type \in {"function", "class"}}}

exportedNames(exports) == {exports[i].name : i \in 1..Len(exports)}

\* mutant: the test of the marking loop inverted
markFunction_inverted(func, names) ==
    IF "arrow" \in DOMAIN func
    THEN [name |-> func.name, params |-> func.params, arrow |-> func.arrow,
          line |-> func.line, exported |-> func.name \notin names]
    ELSE [func EXCEPT !.exported = func.name \notin names]

\* mutant: classes are never marked
markClass_unmarked(cls, names) ==
    [name |-> cls.name, superClass |-> cls.superClass, methods |-> cls.methods,
     line |-> cls.line, exported |-> FALSE]

markFunction(func, names) ==
    IF "arrow" \in DOMAIN func
    THEN [name |-> func.name, params |-> func.params, arrow |-> func.arrow,
          line |-> func.line, exported |-> func.name \in names]
    ELSE [func EXCEPT !.exported = func.name \in names]

markClass(cls, names) ==
    [name |-> cls.name, superClass |-> cls.superClass, methods |-> cls.methods,
     line |-> cls.line, exported |-> cls.name \in names]

markExported(res) ==
    LET names == exportedNames(res.exports)
    IN  [res EXCEPT
            !.functions = [i \in 1..Len(@) |-> markFunction(@[i], names)],
            !.classes = [i \in 1..Len(@) |-> markClass(@[i], names)]]

(***************************************************************************)
(* parseJavaScript (parser.js 54-205): the try block, then the catch.      *)
(***************************************************************************)
tryBlock(items, res, opts) ==
    LET p == acornParse(items)
        r1 == [res EXCEPT !.comments = @ \o p.comments]
    IN  IF p.threw THEN [threw |-> TRUE, message |-> p.message, res |-> r1]
        ELSE LET r2 == IF opts.showAst THEN [r1 EXCEPT !.ast = p.ast] ELSE r1
                 w == walkSimple(p.ast, r2)
             IN  IF w.threw THEN w
                 ELSE [threw |-> FALSE, message |-> Absent, res |-> markExported(w.res)]

\* mutant: no catch around the try block
catchBlock_rethrow(t) ==
    IF t.threw THEN Throw(t.message) ELSE Return(t.res)

catchBlock(t) ==
    IF t.threw THEN Return([t.res EXCEPT !.parseError = t.message])
    ELSE Return(t.res)

parseJavaScript(items, res, opts) == catchBlock(tryBlock(items, res, opts))

(***************************************************************************)
(* JSON content.  The content is the text of a value tree; a "malformed"   *)
(* leaf stands for a place where the text is not JSON, so JSON.parse       *)
(* raises when the tree holds one and returns the tree otherwise.  An      *)
(* object's entries are in Object.keys order; keys are distinct and none   *)
(* is "__proto__".                                                         *)
(***************************************************************************)
JString == [json |-> "string"]
JNumber == [json |-> "number"]
JBoolean == [json |-> "boolean"]
JNull == [json |-> "null"]
JMalformed == [json |-> "malformed"]
JArray(items) == [json |-> "array", items |-> items]
JObject(entries) == [json |-> "object", entries |-> entries]
Entry(k, v) == [key |-> k, value |-> v]

RECURSIVE IsJSON(_)
IsJSON(v) ==
    CASE v.json = "malformed" -> FALSE
      [] v.json = "array" -> \A i \in 1..Len(v.items) : IsJSON(v.items[i])
      [] v.json = "object" -> \A i \in 1..Len(v.entries) : IsJSON(v.entries[i].value)
      [] OTHER -> TRUE

JSONparse(text) ==
    IF IsJSON(text) THEN [threw |-> FALSE, message |-> Absent, value |-> text]
    ELSE [threw |-> TRUE, message |-> "Unexpected token in JSON", value |-> JNull]

\* typeof obj, for the values JSON.parse yields that are neither array nor object
typeof(v) == IF v.json = "null" THEN "object" ELSE v.json

(***************************************************************************)
(* getJSONStructure (parser.js 294-317).  A descriptor is                  *)
(*   Placeholder                       the string '...'                    *)
(*   [tag |-> t]                       the string typeof gave              *)
(*   [type |-> "array", length, items] items NullItems for an empty array  *)
(*   [type |-> "object", keys]         keys: the entries of `structure`,   *)
(*                                     in property order                   *)
(* and [more |-> n] is the string `${n} more keys`.                        *)
(***************************************************************************)
DepthLimit == 3
KeyLimit == 10
Placeholder == [tag |-> "..."]
NullItems == [null |-> TRUE]
MoreKeys(n) == [more |-> n]

\* structure[key] = value on a plain object: an own property keeps its place.
SetProperty(structure, k, v) ==
    IF \E i \in 1..Len(structure) : structure[i].key = k
    THEN [i \in 1..Len(structure) |->
            IF structure[i].key = k THEN Entry(k, v) ELSE structure[i]]
    ELSE Append(structure, Entry(k, v))

Min(a, b) == IF a < b THEN a ELSE b

RECURSIVE getJSONStructure(_, _)
RECURSIVE structureOf(_, _, _, _)
\* the loop of parser.js 307-309, from the i-th of the first KeyLimit keys on
structureOf(entries, depth, i, structure) ==
    IF i > Min(Len(entries), KeyLimit) THEN structure
    ELSE structureOf(entries, depth, i + 1,
             SetProperty(structure, entries[i].key,
                         getJSONStructure(entries[i].value, depth + 1)))

\* mutants: the bound one level late, and no bound at all
truncated_late(depth) == depth > DepthLimit + 1
truncated_never(depth) == FALSE

truncated(depth) == depth > DepthLimit

getJSONStructure(obj, depth) ==
    IF truncated(depth) THEN Placeholder
    ELSE IF obj.json = "array"
    THEN [type |-> "array", length |-> Len(obj.items),
          items |-> IF Len(obj.items) > 0
                    THEN getJSONStructure(obj.items[1], depth + 1)
                    ELSE NullItems]
    ELSE IF obj.json = "object"
    THEN LET structure == structureOf(obj.entries, depth, 1, <<>>)
             n == Len(obj.entries)
         IN  [type |-> "object",
              keys |-> IF n > KeyLimit
                       THEN SetProperty(structure, "...", MoreKeys(n - KeyLimit))
                       ELSE structure]
    ELSE [tag |-> typeof(obj)]

\* mutant: JSON.parse outside the try
parseJSON_unguarded(text, res) ==
    LET p == JSONparse(text)
    IN  IF p.threw THEN Throw(p.message)
        ELSE Return([res EXCEPT !.structure = getJSONStructure(p.value, 0)])

\* parseJSON (parser.js 278-286)
parseJSON(text, res) ==
    LET p == JSONparse(text)
    IN  IF p.threw THEN Return([res EXCEPT !.parseError = p.message])
        ELSE Return([res EXCEPT !.structure = getJSONStructure(p.value, 0)])

(***************************************************************************)
(* Python content.  The content is the sequence of its lines, as           *)
(* content.split('\n') yields them; a line is a sequence of characters.    *)
(* The four regular expressions of parsePython (parser.js 217-223) are     *)
(* matched the way the regex engine matches them: every quantifier is      *)
(* greedy, and only in importRegex can a shorter match of one succeed      *)
(* where the longest fails.                                                *)
(***************************************************************************)
LowerCase == {"a", "b", "c", "d", "e", "f", "g", "h", "i", "j", "k", "l", "m",
               "n", "o", "p", "q", "r", "s", "t", "u", "v", "w", "x", "y", "z"}
UpperCase == {"A", "B", "C", "D", "E", "F", "G", "H", "I", "J", "K", "L", "M",
               "N", "O", "P", "Q", "R", "S", "T", "U", "V", "W", "X", "Y", "Z"}
Digits == {"0", "1", "2", "3", "4", "5", "6", "7", "8", "9"}
WordChars == LowerCase \cup UpperCase \cup Digits \cup {"_"}   \* \w
Whitespace == {" ", "\t", "\r", "\f"}                          \* \s
LineTerminators == {"\r"}                                      \* not matched by .

RECURSIVE SpanEnd(_, _, _, _)
\* the index after the longest run, from i on, of characters in (not in) class
SpanEnd(line, i, class, negated) ==
    IF i <= Len(line) /\ ((line[i] \in class) # negated)
    THEN SpanEnd(line, i + 1, class, negated)
    ELSE i

StartsWithAt(line, i, word) ==
    /\ i + Len(word) - 1 <= Len(line)
    /\ SubSeq(line, i, i + Len(word) - 1) = word
CharAt(line, i) == IF i <= Len(line) THEN line[i] ELSE ""
From(line, i) == SubSeq(line, i, Len(line))

RECURSIVE Str(_)
\* the characters as one string
Str(chars) == IF chars = <<>> THEN "" ELSE Head(chars) \o Str(Tail(chars))

NoMatch == [matched |-> FALSE]

\* /^(?:from\s+(\S+)\s+)?import\s+(.+)$/
importRegex(line) ==
    LET a == SpanEnd(line, 5, Whitespace, FALSE)
        b == SpanEnd(line, a, Whitespace, TRUE)
        c == SpanEnd(line, b, Whitespace, FALSE)
        from == /\ StartsWithAt(line, 1, <<"f", "r", "o", "m">>)
                /\ a > 5 /\ b > a /\ c > b
        p == IF from THEN c ELSE 1
        q == p + 6
        r == SpanEnd(line, q, Whitespace, FALSE)
        starts == {k \in (q + 1)..r :
                     /\ k <= Len(line)
                     /\ \A j \in k..Len(line) : line[j] \notin LineTerminators}
    IN  IF StartsWithAt(line, p, <<"i", "m", "p", "o", "r", "t">>) /\ starts # {}
        THEN [matched |-> TRUE,
              g1 |-> IF from THEN Str(SubSeq(line, a, b - 1)) ELSE Undefined,
              g2 |-> Str(From(line, CHOOSE k \in starts : \A j \in starts : j <= k))]
        ELSE NoMatch

\* /^(\s*)def\s+(\w+)\s*\(([^)]*)\)/
funcRegex(line) ==
    LET a == SpanEnd(line, 1, Whitespace, FALSE)
        b == a + 3
        c == SpanEnd(line, b, Whitespace, FALSE)
        d == SpanEnd(line, c, WordChars, FALSE)
        e == SpanEnd(line, d, Whitespace, FALSE)
        f == SpanEnd(line, e + 1, {")"}, TRUE)
    IN  IF /\ StartsWithAt(line, a, <<"d", "e", "f">>)
           /\ c > b /\ d > c
           /\ CharAt(line, e) = "("
           /\ CharAt(line, f) = ")"
        THEN [matched |-> TRUE,
              g1 |-> SubSeq(line, 1, a - 1),
              g2 |-> Str(SubSeq(line, c, d - 1)),
              g3 |-> SubSeq(line, e + 1, f - 1)]
        ELSE NoMatch

\* /^class\s+(\w+)(?:\(([^)]*)\))?:/
classRegex(line) ==
    LET a == SpanEnd(line, 6, Whitespace, FALSE)
        b == SpanEnd(line, a, WordChars, FALSE)
        c == SpanEnd(line, b + 1, {")"}, TRUE)
        named == StartsWithAt(line, 1, <<"c", "l", "a", "s", "s">>) /\ a > 6 /\ b > a
    IN  IF named /\ CharAt(line, b) = "(" /\ CharAt(line, c) = ")"
                 /\ CharAt(line, c + 1) = ":"
        THEN [matched |-> TRUE, g1 |-> Str(SubSeq(line, a, b - 1)),
              g2 |-> Str(SubSeq(line, b + 1, c - 1))]
        ELSE IF named /\ CharAt(line, b) = ":"
        THEN [matched |-> TRUE, g1 |-> Str(SubSeq(line, a, b - 1)), g2 |-> Undefined]
        ELSE NoMatch

\* /^([A-Z_][A-Z0-9_]*)\s*=/
varRegex(line) ==
    LET a == SpanEnd(line, 2, UpperCase \cup Digits \cup {"_"}, FALSE)
        b == SpanEnd(line, a, Whitespace, FALSE)
    IN  IF /\ CharAt(line, 1) \in UpperCase \cup {"_"}
           /\ CharAt(line, b) = "="
        THEN [matched |-> TRUE, g1 |-> Str(SubSeq(line, 1, a - 1))]
        ELSE NoMatch

RECURSIVE split(_, _)
\* text.split(sep), sep one character
split(text, sep) ==
    LET i == SpanEnd(text, 1, {sep}, TRUE)
    IN  IF i > Len(text) THEN <<text>>
        ELSE <<SubSeq(text, 1, i - 1)>> \o split(From(text, i + 1), sep)

RECURSIVE trimEnd(_)
trimEnd(text) ==
    IF text # <<>> /\ text[Len(text)] \in Whitespace
    THEN trimEnd(SubSeq(text, 1, Len(text) - 1))
    ELSE text
trim(text) == trimEnd(From(text, SpanEnd(text, 1, Whitespace, FALSE)))

\* funcMatch[3].split(',').map((p) => p.trim()).filter(Boolean)
params(text) ==
    LET tokens == split(text, ",")
        trimmed == [i \in 1..Len(tokens) |-> Str(trim(tokens[i]))]
    IN  SelectSeq(trimmed, LAMBDA t : t # "")

\* mutant: a method is what is indented deeper than one column
isMethod_deeper(indent) == indent > 1

\* isMethod: indent > 0 (parser.js 245)
isMethod(indent) == indent > 0

\* the body of the loop of parser.js 225-267, for line number lineNum
parseLine(line, lineNum, res) ==
    LET importMatch == importRegex(line)
        funcMatch == funcRegex(line)
        classMatch == classRegex(line)
        varMatch == varRegex(line)
    IN  IF importMatch.matched
        THEN Push(res, "imports",
                  [source |-> OrElse(importMatch.g1, importMatch.g2),
                   line |-> lineNum])
        ELSE IF funcMatch.matched
        THEN Push(res, "functions",
                  [name |-> funcMatch.g2,
                   params |-> params(funcMatch.g3),
                   line |-> lineNum,
                   isMethod |-> isMethod(Len(funcMatch.g1))])
        ELSE IF classMatch.matched
        THEN Push(res, "classes",
                  [name |-> classMatch.g1, superClass |-> classMatch.g2,
                   line |-> lineNum])
        ELSE IF varMatch.matched
        THEN Push(res, "variables", [name |-> varMatch.g1, line |-> lineNum])
        ELSE res

RECURSIVE parseLines(_, _, _)
parseLines(lines, i, res) ==
    IF i > Len(lines) THEN res
    ELSE parseLines(lines, i + 1, parseLine(lines[i], i, res))

\* parsePython (parser.js 213-270)
parsePython(lines, res) == Return(parseLines(lines, 1, res))

(***************************************************************************)
(* parseFile (parser.js 12-45): dispatch on the extension.                 *)
(***************************************************************************)
parseFile(e, c, opts) ==
    IF e \in {".js", ".mjs", ".cjs"} THEN parseJavaScript(c, newResult(e), opts)
    ELSE IF e \in {".ts", ".tsx"} THEN parseJavaScript(c, newResult(e), opts)
    ELSE IF e \in {".jsx"} THEN parseJavaScript(c, newResult(e), opts)
    ELSE IF e = ".py" THEN parsePython(c, newResult(e))
    ELSE IF e = ".json" THEN parseJSON(c, newResult(e))
    ELSE Return(newResult(e))

(***************************************************************************)
(* Spec: ECMAScript-family files.  The content is built item by item; the  *)
(* items are kept to programs whose static semantics acorn accepts (no     *)
(* top-level name bound twice, no name exported twice, export specifiers   *)
(* naming bindings declared above them), so that a malformed fragment is   *)
(* the only reason for acorn.parse to raise.                               *)
(***************************************************************************)
Names == {"f", "g"}
Params1 == <<Identifier("a")>>
Params2 == <<AssignmentPattern("b"), ObjectPattern>>

FunctionDeclarations ==
    {FunctionDeclaration(Identifier(n), Params1, <<>>) : n \in Names}
    \cup {FunctionDeclaration(Identifier("g"), Params2,
              <<FunctionDeclaration(Identifier("f"), <<>>, <<>>)>>)}
ClassBody ==
    <<MethodDefinition("constructor", "constructor", FALSE), PropertyDefinition("p"),
      MethodDefinition("f", "method", TRUE)>>
ClassDeclarations ==
    {ClassDeclaration(Identifier("f"), NoNode, <<>>),
     ClassDeclaration(Identifier("g"), Identifier("f"), ClassBody)}
VariableDeclarations ==
    {VariableDeclaration("const", <<VariableDeclarator(Identifier(n), init)>>) :
        n \in Names, init \in {ArrowFunctionExpression(Params1), Literal}}
    \cup {VariableDeclaration("const", <<VariableDeclarator(ObjectPattern, Literal)>>)}
    \cup {VariableDeclaration("let",
              <<VariableDeclarator(Identifier("f"), FunctionExpression(Params2)),
                VariableDeclarator(Identifier("g"), NoNode)>>)}
DefaultDeclarations ==
    {Identifier(n) : n \in Names}
    \cup {FunctionDeclaration(Identifier("g"), Params1, <<>>),
          FunctionDeclaration(NoNode, <<>>, <<>>),
          ClassDeclaration(NoNode, NoNode, <<>>),
          Literal}

Items ==
    {Comment(b) : b \in BOOLEAN} \cup {Bad, Deep}
    \cup {ImportDeclaration("m", <<ImportDefaultSpecifier("m"), ImportSpecifier("n", "f")>>)}
    \cup FunctionDeclarations \cup ClassDeclarations \cup VariableDeclarations
    \cup {ExportNamedDeclaration(d, <<>>) :
            d \in FunctionDeclarations \cup ClassDeclarations \cup VariableDeclarations}
    \cup {ExportNamedDeclaration(NoNode, <<ExportSpecifier(l, x)>>) :
            l \in Names, x \in Names}
    \cup {ExportDefaultDeclaration(d) : d \in DefaultDeclarations}

\* The names an item binds at the top level, and the names it exports.
BoundBy(item) ==
    CASE item.type \in {"FunctionDeclaration", "ClassDeclaration"} ->
            {IdNameOf(item)} \ {Undefined}
      [] item.type = "VariableDeclaration" ->
            {NameOf(item.declarations[i].id) : i \in 1..Len(item.declarations)}
                \ {Undefined}
      [] item.type = "ImportDeclaration" ->
            {item.specifiers[i].local.name : i \in 1..Len(item.specifiers)}
      [] item.type \in {"ExportNamedDeclaration", "ExportDefaultDeclaration"} ->
            IF item.declaration.type \in {"FunctionDeclaration", "ClassDeclaration"}
            THEN {IdNameOf(item.declaration)} \ {Undefined}
            ELSE IF item.declaration.type = "VariableDeclaration"
            THEN {NameOf(item.declaration.declarations[i].id) :
                    i \in 1..Len(item.declaration.declarations)} \ {Undefined}
            ELSE {}
      [] OTHER -> {}

ExportedBy(item) ==
    CASE item.type = "ExportDefaultDeclaration" -> {"default"}
      [] item.type = "ExportNamedDeclaration" ->
            BoundBy(item)
            \cup {item.specifiers[i].exported : i \in 1..Len(item.specifiers)}
      [] OTHER -> {}

LocalsOf(item) ==
    IF item.type = "ExportNamedDeclaration"
    THEN {item.specifiers[i].local : i \in 1..Len(item.specifiers)}
    ELSE {}

Bound(items) == UNION {BoundBy(items[i]) : i \in 1..Len(items)}
Exported(items) == UNION {ExportedBy(items[i]) : i \in 1..Len(items)}

Accepts(items, item) ==
    /\ BoundBy(item) \cap Bound(items) = {}
    /\ ExportedBy(item) \cap Exported(items) = {}
    /\ LocalsOf(item) \subseteq Bound(items)

Init ==
    /\ ext = ".js"
    /\ content = <<>>
    /\ content2 = <<>>
    /\ options = [showAst |-> FALSE]
    /\ result = NoResult
    /\ result2 = NoResult
    /\ pc = "edit"
    /\ NoProject

AppendItem(item) ==
    /\ pc = "edit"
    /\ Len(content) < MaxItems
    /\ Accepts(content, item)
    /\ content' = Append(content, item)
    /\ UNCHANGED <<ext, content2, options, result, result2, pc, dirPath, disk, files, out, env>>

\* One call parseFile(filePath, content, options).
Call(e, opts) ==
    LET r == parseFile(e, content, opts)
    IN  /\ pc = "edit"
        /\ ext' = e
        /\ options' = opts
        /\ result' = r.value
        /\ pc' = IF r.completion = "return" THEN "returned" ELSE "raised"
        /\ UNCHANGED <<content, content2, result2, dirPath, disk, files, out, env>>

ParseFile == \E e \in ESExtensions, a \in BOOLEAN : Call(e, [showAst |-> a])

Next ==
    \/ \E item \in Items : AppendItem(item)
    \/ ParseFile

Spec == Init /\ [][Next]_vars

(***************************************************************************)
(* SpecJSON: .json files.  Two contents are built side by side, from two   *)
(* innermost values by the same wrappers, and each is parsed by a call of  *)
(* its own, so the two differ at most inside the innermost values.         *)
(***************************************************************************)
RECURSIVE Nesting(_)
Max(a, b) == IF a > b THEN a ELSE b
MaxOver(S) == IF S = {} THEN 0 ELSE CHOOSE m \in S : \A x \in S : x <= m
Nesting(v) ==
    CASE v.json = "array" ->
            1 + MaxOver({Nesting(v.items[i]) : i \in 1..Len(v.items)})
      [] v.json = "object" ->
            1 + MaxOver({Nesting(v.entries[i].value) : i \in 1..Len(v.entries)})
      [] OTHER -> 0

Cores ==
    {JString, JNumber, JNull, JMalformed, JArray(<<>>),
     JObject(<<Entry("x", JString)>>)}

Wrappers == {"array", "object"}
Wrap(w, v) ==
    CASE w = "array" -> JArray(<<v, JBoolean>>)
      [] w = "object" -> JObject(<<Entry("a", v), Entry("b", JNumber)>>)

InitJSON ==
    /\ ext = ".json"
    /\ content \in Cores
    /\ content2 \in Cores
    /\ options = [showAst |-> FALSE]
    /\ result = NoResult
    /\ result2 = NoResult
    /\ pc = "edit"
    /\ NoProject

WrapBoth(w) ==
    /\ pc = "edit"
    /\ Max(Nesting(content), Nesting(content2)) < MaxNesting
    /\ content' = Wrap(w, content)
    /\ content2' = Wrap(w, content2)
    /\ UNCHANGED <<ext, options, result, result2, pc, dirPath, disk, files, out, env>>

\* Two calls of parseFile, one per content.
ParseBoth ==
    LET r == parseFile(ext, content, options)
        r2 == parseFile(ext, content2, options)
    IN  /\ pc = "edit"
        /\ result' = r.value
        /\ result2' = r2.value
        /\ pc' = IF r.completion = "return" /\ r2.completion = "return"
                 THEN "returned" ELSE "raised"
        /\ UNCHANGED <<ext, content, content2, options, dirPath, disk, files, out, env>>

NextJSON ==
    \/ \E w \in Wrappers : WrapBoth(w)
    \/ ParseBoth

SpecJSON == InitJSON /\ [][NextJSON]_vars

(***************************************************************************)
(* SpecKeys: .json files holding one wide object.  Keys are added one at a *)
(* time, k1, k2, ... with the key "..." at most once anywhere among them;  *)
(* the values cycle through four shapes.  The object may then be wrapped.  *)
(***************************************************************************)
KeyValues ==
    <<JString, JArray(<<JNumber>>), JNull, JObject(<<Entry("x", JBoolean)>>)>>
ValueFor(i) == KeyValues[(i % Len(KeyValues)) + 1]
KeysOf(obj) == {obj.entries[i].key : i \in 1..Len(obj.entries)}
RECURSIVE Wraps(_)
Wraps(v) ==
    IF v.json = "object" /\ KeysOf(v) = {"w"} THEN 1 + Wraps(v.entries[1].value) ELSE 0
NextKey(obj) == "k" \o ToString(Cardinality(KeysOf(obj) \ {"..."}) + 1)

InitKeys ==
    /\ ext = ".json"
    /\ content = JObject(<<>>)
    /\ content2 = JNull
    /\ options = [showAst |-> FALSE]
    /\ result = NoResult
    /\ result2 = NoResult
    /\ pc = "edit"
    /\ NoProject

AddKey(k) ==
    /\ pc = "edit"
    /\ content.json = "object"
    /\ Wraps(content) = 0
    /\ Len(content.entries) < MaxKeys
    /\ k \notin KeysOf(content)
    /\ content' = JObject(Append(content.entries,
                                 Entry(k, ValueFor(Len(content.entries) + 1))))
    /\ UNCHANGED <<ext, content2, options, result, result2, pc, dirPath, disk, files, out, env>>

WrapObject ==
    /\ pc = "edit"
    /\ Wraps(content) < MaxWraps
    /\ content' = JObject(<<Entry("w", content)>>)
    /\ UNCHANGED <<ext, content2, options, result, result2, pc, dirPath, disk, files, out, env>>

\* One call parseFile(filePath, content, options) on the content as built.
ParseContent ==
    LET r == parseFile(ext, content, options)
    IN  /\ pc = "edit"
        /\ result' = r.value
        /\ pc' = IF r.completion = "return" THEN "returned" ELSE "raised"
        /\ UNCHANGED <<ext, content, content2, options, result2, dirPath, disk, files, out, env>>

NextKeys ==
    \/ AddKey(NextKey(content))
    \/ AddKey("...")
    \/ WrapObject
    \/ ParseContent

SpecKeys == InitKeys /\ [][NextKeys]_vars

(***************************************************************************)
(* SpecPy: .py files.  The lines are drawn from function definitions in    *)
(* several layouts (indentation, name, parameter text) and from lines of   *)
(* the other kinds parsePython looks for, or of none.                      *)
(***************************************************************************)
PyIndents == {<<>>, <<" ", " ">>, <<"\t">>}
PyNames == {<<"f">>, <<"g", "_", "1">>}
\* a parameter text, and the parameters it lists
PyParams ==
    {[text |-> <<>>, names |-> <<>>],
     [text |-> <<"a">>, names |-> <<"a">>],
     [text |-> <<"a", ",", " ", "b">>, names |-> <<"a", "b">>],
     [text |-> <<" ", "a", " ", ",", ",", " ", "b", " ", ",">>, names |-> <<"a", "b">>]}
DefLine(indent, name, text) ==
    indent \o <<"d", "e", "f", " ">> \o name \o <<"(">> \o text \o <<")", ":">>
DefLines ==
    {DefLine(i, n, p.text) : i \in PyIndents, n \in PyNames, p \in PyParams}
OtherLines ==
    {<<>>,
     <<"i", "m", "p", "o", "r", "t", " ", "o", "s">>,
     <<"f", "r", "o", "m", " ", "x", " ", "i", "m", "p", "o", "r", "t", " ", "y">>,
     <<"c", "l", "a", "s", "s", " ", "A", "(", "B", ")", ":">>,
     <<"c", "l", "a", "s", "s", " ", "A", ":">>,
     <<"X", " ", "=", " ", "1">>,
     <<"a", "s", "y", "n", "c", " ", "d", "e", "f", " ", "f", "(", "a", ")", ":">>,
     <<"d", "e", "f", " ", "f", "(", "a">>,
     <<"x", " ", "=", " ", "1">>}
\* a class line, and the first base of its base list
PyClasses ==
    {[text |-> <<"c", "l", "a", "s", "s", " ", "A", ":">>, first |-> Undefined],
     [text |-> <<"c", "l", "a", "s", "s", " ", "A", "(", "B", ")", ":">>, first |-> "B"],
     [text |-> <<"c", "l", "a", "s", "s", " ", "A", "(", "B", ",", " ", "C", ")", ":">>, first |-> "B"],
     [text |-> <<"c", "l", "a", "s", "s", " ", "A", "(", "m", ".", "B", ",", "C", ")", ":">>, first |-> "m.B"]}
\* an import statement, and the module it names first
PyImports ==
    {[text |-> <<"i", "m", "p", "o", "r", "t", " ", "o", "s">>, module |-> "os"],
     [text |-> <<"f", "r", "o", "m", " ", "x", " ", "i", "m", "p", "o", "r", "t", " ", "y">>, module |-> "x"],
     [text |-> <<"i", "m", "p", "o", "r", "t", " ", "x", " ", "a", "s", " ", "z">>, module |-> "x"],
     [text |-> <<"i", "m", "p", "o", "r", "t", " ", "x", ",", " ", "w">>, module |-> "x"]}
PyLines ==
    DefLines \cup OtherLines \cup {c.text : c \in PyClasses} \cup {m.text : m \in PyImports}

InitPy ==
    /\ ext = ".py"
    /\ content \in {<<l>> : l \in PyLines}
    /\ content2 = <<>>
    /\ options = [showAst |-> FALSE]
    /\ result = NoResult
    /\ result2 = NoResult
    /\ pc = "edit"
    /\ NoProject

AppendLine(l) ==
    /\ pc = "edit"
    /\ Len(content) < MaxLines
    /\ content' = Append(content, l)
    /\ UNCHANGED <<ext, content2, options, result, result2, pc, dirPath, disk, files, out, env>>

NextPy ==
    \/ \E l \in PyLines : AppendLine(l)
    \/ ParseContent

SpecPy == InitPy /\ [][NextPy]_vars

(***************************************************************************)
(* Properties of parseJavaScript, checked under Spec.                      *)
(***************************************************************************)
ParseFails(items) == \E i \in 1..Len(items) : items[i].type = "Bad"
WalkFails(items) ==
    ~ParseFails(items) /\ \E i \in 1..Len(items) : items[i].type = "Deep"
Parsed == pc = "returned" /\ result.parseError = Absent
FactLists == {"imports", "exports", "functions", "classes", "variables", "comments"}
Range(seq) == {seq[i] : i \in 1..Len(seq)}

\* C1: parseFile on an ECMAScript-family extension always returns a record and
\* never raises; a failure of acorn.parse or of the walk ends up as the
\* record's parseError message.
C1_NeverRaises ==
    /\ pc \in {"edit", "returned"}
    /\ pc = "returned" =>
          /\ ext \in ESExtensions
          /\ result.extension = ext
          /\ (ParseFails(content) \/ WalkFails(content)) => result.parseError # Absent

C1_Witness ==
    /\ pc = "returned"
    /\ WalkFails(content)
    /\ result.parseError = "Maximum call stack size exceeded"

\* C2 as stated: after a parse failure parseError is set and all six fact lists
\* are empty, also when comments precede the syntax error.
C2_AllListsEmpty ==
    (pc = "returned" /\ ParseFails(content)) =>
        /\ result.parseError # Absent
        /\ \A l \in FactLists : result[l] = <<>>

\* C2 amended: after a parse failure parseError is set, imports, exports,
\* functions, classes and variables are empty, and comments holds exactly the
\* comments that precede the syntax error, in order.
CommentLinesBefore(items) ==
    {i \in 1..Len(items) :
        /\ items[i].type = "Comment"
        /\ \A j \in 1..i : items[j].type # "Bad"}

C2_CommentsBeforeError ==
    (pc = "returned" /\ ParseFails(content)) =>
        /\ result.parseError # Absent
        /\ \A l \in FactLists \ {"comments"} : result[l] = <<>>
        /\ {c.line : c \in Range(result.comments)} = CommentLinesBefore(content)
        /\ Len(result.comments) = Cardinality(CommentLinesBefore(content))
        /\ \A i, j \in 1..Len(result.comments) :
              i < j => result.comments[i].line < result.comments[j].line

C2_Witness ==
    /\ pc = "returned"
    /\ ParseFails(content)
    /\ result.comments # <<>>

\* C3: after a successful parse every exports entry of kind 'function' has a
\* functions record of its name with exported = TRUE, and every entry of kind
\* 'class' a classes record of its name with exported = TRUE.
C3_ExportsAreMarked ==
    Parsed =>
        \A e \in Range(result.exports) :
            /\ e.type = "function" =>
                  \E f \in Range(result.functions) : f.name = e.name /\ f.exported
            /\ e.type = "class" =>
                  \E c \in Range(result.classes) : c.name = e.name /\ c.exported

C3_Witness ==
    /\ Parsed
    /\ \E e \in Range(result.exports) : e.type = "function"
    /\ \E e \in Range(result.exports) : e.type = "class"

\* C4 as stated: after a successful parse a functions or classes record is
\* exported only if an exports entry of kind 'function' or 'class' has its name.
C4_OnlyDeclaredExports ==
    Parsed =>
        \A r \in Range(result.functions) \cup Range(result.classes) :
            r.exported =>
                \E e \in Range(result.exports) :
                    e.name = r.name /\ e.type \in {"function", "class"}

\* C4 amended: after a successful parse a functions or classes record is
\* exported only if some exports entry, of whatever kind, has its name.
C4_OnlyExportedNames ==
    Parsed =>
        \A r \in Range(result.functions) \cup Range(result.classes) :
            r.exported => \E e \in Range(result.exports) : e.name = r.name

C4_Witness ==
    /\ Parsed
    /\ \E f \in Range(result.functions) :
          /\ f.exported
          /\ \A e \in Range(result.exports) :
                e.name = f.name => e.type \in {"variable", "default", "reexport"}

\* C5: after a successful parse the exported flag of every functions and
\* classes record is the membership of its name among the names of all
\* exports entries, so records that share a name share the flag.
C5_FlagIsMembership ==
    Parsed =>
        LET records == Range(result.functions) \cup Range(result.classes)
            names == {e.name : e \in Range(result.exports)}
        IN  /\ \A r \in records :
                  "exported" \in DOMAIN r /\ (r.exported <=> r.name \in names)
            /\ \A r, q \in records : r.name = q.name => r.exported = q.exported

C5_Witness ==
    /\ Parsed
    /\ \E i, j \in 1..Len(result.functions) :
          /\ i # j
          /\ result.functions[i].name = result.functions[j].name
          /\ result.functions[i].exported
    /\ \E r \in Range(result.functions) \cup Range(result.classes) : ~r.exported

(***************************************************************************)
(* Properties of parseJSON and getJSONStructure.                           *)
(***************************************************************************)
RECURSIVE DepthRespected(_, _)
\* every placeholder of the descriptor lies at depth 4, everything else above
DepthRespected(desc, depth) ==
    IF desc = Placeholder THEN depth = DepthLimit + 1
    ELSE /\ depth <= DepthLimit
         /\ "type" \in DOMAIN desc =>
              IF desc.type = "array"
              THEN desc.items = NullItems \/ DepthRespected(desc.items, depth + 1)
              ELSE \A i \in 1..Len(desc.keys) :
                      \/ "more" \in DOMAIN desc.keys[i].value
                      \/ DepthRespected(desc.keys[i].value, depth + 1)

RECURSIVE HasPlaceholder(_)
HasPlaceholder(desc) ==
    \/ desc = Placeholder
    \/ /\ "type" \in DOMAIN desc
       /\ IF desc.type = "array"
          THEN desc.items # NullItems /\ HasPlaceholder(desc.items)
          ELSE \E i \in 1..Len(desc.keys) :
                  /\ "more" \notin DOMAIN desc.keys[i].value
                  /\ HasPlaceholder(desc.keys[i].value)

\* C6: the descriptor of a JSON value describes depths 0 to 3 and holds the
\* placeholder '...' for what it reaches at depth 4: a placeholder never stands
\* for a value above depth 4 and no shape is given at depth 4 or below.
C6_DepthBound ==
    pc = "returned" =>
        /\ IsJSON(content) =>
              /\ result.structure # NoStructure
              /\ DepthRespected(result.structure, 0)
        /\ IsJSON(content2) =>
              /\ result2.structure # NoStructure
              /\ DepthRespected(result2.structure, 0)

C6_Witness ==
    /\ pc = "returned"
    /\ IsJSON(content)
    /\ Nesting(content) > DepthLimit + 1
    /\ HasPlaceholder(result.structure)

RECURSIVE Pruned(_, _)
\* the value with everything at depth 4 or deeper cut away
Pruned(v, depth) ==
    IF depth > DepthLimit THEN JNull
    ELSE CASE v.json = "array" ->
                JArray([i \in 1..Len(v.items) |-> Pruned(v.items[i], depth + 1)])
           [] v.json = "object" ->
                JObject([i \in 1..Len(v.entries) |->
                    Entry(v.entries[i].key, Pruned(v.entries[i].value, depth + 1))])
           [] OTHER -> v

\* C7: two JSON values that are identical above depth 4 get the same descriptor.
C7_DepthOnly ==
    (/\ pc = "returned"
     /\ IsJSON(content)
     /\ IsJSON(content2)
     /\ Pruned(content, 0) = Pruned(content2, 0))
        => result.structure = result2.structure

C7_Witness ==
    /\ pc = "returned"
    /\ IsJSON(content)
    /\ IsJSON(content2)
    /\ Nesting(content) = 5
    /\ Nesting(content2) = 6
    /\ Pruned(content, 0) = Pruned(content2, 0)
    /\ result.structure = result2.structure
    /\ HasPlaceholder(result.structure)

\* C9: parseFile on a .json file returns normally, with structure and no
\* parseError when the content is JSON, with parseError and no structure when
\* it is not, and with the six fact lists empty either way.
JSONOutcome(text, res) ==
    /\ IF IsJSON(text)
       THEN res.structure # NoStructure /\ res.parseError = Absent
       ELSE res.structure = NoStructure /\ res.parseError # Absent
    /\ \A l \in FactLists : res[l] = <<>>

C9_JSONOutcome ==
    /\ pc \in {"edit", "returned"}
    /\ pc = "returned" =>
          JSONOutcome(content, result) /\ JSONOutcome(content2, result2)

C9_Witness ==
    /\ pc = "returned"
    /\ ~IsJSON(content)
    /\ result.parseError # Absent
    /\ IsJSON(content2)
    /\ result2.structure # NoStructure

(***************************************************************************)
(* Properties of getJSONStructure's object branch, checked under SpecKeys. *)
(***************************************************************************)
HasProperty(structure, k) == \E i \in 1..Len(structure) : structure[i].key = k
GetProperty(structure, k) ==
    structure[CHOOSE i \in 1..Len(structure) : structure[i].key = k].value

KeysDescribed(obj, desc, depth) ==
    LET n == Len(obj.entries)
        m == Min(n, KeyLimit)
        markers == {i \in 1..Len(desc.keys) : "more" \in DOMAIN desc.keys[i].value}
    IN  /\ desc.type = "object"
        /\ \A i \in 1..m :
              /\ HasProperty(desc.keys, obj.entries[i].key)
              /\ GetProperty(desc.keys, obj.entries[i].key)
                    = getJSONStructure(obj.entries[i].value, depth + 1)
        /\ IF n > KeyLimit
           THEN \E i \in 1..Len(desc.keys) : desc.keys[i].value = MoreKeys(n - KeyLimit)
           ELSE markers = {}
        /\ Len(desc.keys) = m + Cardinality(markers)

RECURSIVE ObjectsDescribed(_, _, _)
ObjectsDescribed(v, desc, depth) ==
    \/ depth > DepthLimit
    \/ v.json # "object"
    \/ /\ KeysDescribed(v, desc, depth)
       /\ \A i \in 1..Min(Len(v.entries), KeyLimit) :
             ObjectsDescribed(v.entries[i].value,
                              GetProperty(desc.keys, v.entries[i].key), depth + 1)

\* C8: for every object getJSONStructure inspects, keys maps each of the first
\* 10 key names to the shape of its value, and the remainder marker is there
\* exactly when the object has more than 10 keys, as an entry of its own.
C8_FirstTenKeys ==
    pc = "returned" => ObjectsDescribed(content, result.structure, 0)

(***************************************************************************)
(* Properties of parsePython, checked under SpecPy.                        *)
(***************************************************************************)
FunctionsAt(i) == {r \in Range(result.functions) : r.line = i}

\* C10: a line `def f(a, b):` yields one functions record with the name, the
\* parameters (trimmed, empty ones dropped) and isMethod = FALSE when the line
\* starts at column 0, TRUE when it is indented; isMethod of every functions
\* record says whether its line starts with whitespace.
C10_DefLine ==
    pc = "returned" =>
        /\ \A i \in 1..Len(content) :
              \A ind \in PyIndents, n \in PyNames, p \in PyParams :
                  content[i] = DefLine(ind, n, p.text) =>
                      FunctionsAt(i) =
                          {[name |-> Str(n), params |-> p.names, line |-> i,
                            isMethod |-> ind # <<>>]}
        /\ \A r \in Range(result.functions) :
              r.isMethod <=> CharAt(content[r.line], 1) \in Whitespace

C10_Witness ==
    /\ pc = "returned"
    /\ content = <<DefLine(<<>>, <<"f">>, <<"a", ",", " ", "b">>), DefLine(<<"\t">>, <<"f">>, <<"a", ",", " ", "b">>)>>
    /\ result.functions =
          <<[name |-> "f", params |-> <<"a", "b">>, line |-> 1, isMethod |-> FALSE],
            [name |-> "f", params |-> <<"a", "b">>, line |-> 2, isMethod |-> TRUE]>>

(***************************************************************************)
(* The directory scanner and categorizer (lib/scanner.js) and the project  *)
(* analyzer (src/src/lib/analyzer.js).  A path is the tuple of its         *)
(* characters, as a Python line is; path.sep is "/".                       *)
(***************************************************************************)
MaxFiles == 2

\* String.prototype.includes
includes(text, word) == \E i \in 1..(Len(text) + 1) : StartsWithAt(text, i, word)

\* path.basename: the portion after the last separator
basename(file) == LET parts == split(file, "/") IN parts[Len(parts)]

RECURSIVE lastIndexOf(_, _)
lastIndexOf(text, c) ==
    IF text = <<>> THEN 0
    ELSE IF text[Len(text)] = c THEN Len(text)
    ELSE lastIndexOf(SubSeq(text, 1, Len(text) - 1), c)

\* path.extname: from the last "." of the basename on; "" when the basename has
\* no "." or none but its first character
extname(file) ==
    LET base == basename(file)
        dot == lastIndexOf(base, ".")
    IN  IF dot <= 1 THEN <<>> ELSE From(base, dot)

\* path.dirname: the portion before the last separator
dirname(file) ==
    LET slash == lastIndexOf(file, "/")
    IN  IF slash = 0 THEN <<".">>
        ELSE IF slash = 1 THEN <<"/">>
        ELSE SubSeq(file, 1, slash - 1)

codeExtensions ==
    {<<".", "j", "s">>, <<".", "t", "s">>, <<".", "j", "s", "x">>, <<".", "t", "s", "x">>, <<".", "p", "y">>, <<".", "r", "b">>, <<".", "g", "o">>, <<".", "j", "a", "v", "a">>,
     <<".", "c">>, <<".", "c", "p", "p">>, <<".", "r", "s">>}
configFiles ==
    {<<"p", "a", "c", "k", "a", "g", "e", ".", "j", "s", "o", "n">>, <<"t", "s", "c", "o", "n", "f", "i", "g", ".", "j", "s", "o", "n">>, <<".", "e", "s", "l", "i", "n", "t", "r", "c">>, <<".", "p", "r", "e", "t", "t", "i", "e", "r", "r", "c">>,
     <<"w", "e", "b", "p", "a", "c", "k", ".", "c", "o", "n", "f", "i", "g", ".", "j", "s">>, <<"v", "i", "t", "e", ".", "c", "o", "n", "f", "i", "g", ".", "j", "s">>}
docExtensions == {<<".", "m", "d">>, <<".", "t", "x", "t">>, <<".", "r", "s", "t">>, <<".", "a", "d", "o", "c">>}
testPatterns == {<<".", "t", "e", "s", "t", ".">>, <<".", "s", "p", "e", "c", ".">>, <<"_", "_", "t", "e", "s", "t", "s", "_", "_">>, <<"t", "e", "s", "t", "/">>, <<"t", "e", "s", "t", "s", "/">>}
assetExtensions ==
    {<<".", "p", "n", "g">>, <<".", "j", "p", "g">>, <<".", "j", "p", "e", "g">>, <<".", "g", "i", "f">>, <<".", "s", "v", "g">>, <<".", "i", "c", "o">>, <<".", "w", "o", "f", "f">>,
     <<".", "w", "o", "f", "f", "2">>, <<".", "t", "t", "f">>}

isTest(file) == \E p \in testPatterns : includes(file, p)
isCode(file) == extname(file) \in codeExtensions
isConfig(file) ==
    \/ \E c \in configFiles : includes(basename(file), c)
    \/ extname(file) \in {<<".", "j", "s", "o", "n">>, <<".", "y", "a", "m", "l">>, <<".", "y", "m", "l">>}
isDoc(file) == extname(file) \in docExtensions
isAsset(file) == extname(file) \in assetExtensions

\* the if / else-if chain of the loop body, with the code rule tried first
categoryOf_codeFirst(file) ==
    IF isCode(file) THEN "code"
    ELSE IF isTest(file) THEN "tests"
    ELSE IF isConfig(file) THEN "config"
    ELSE IF isDoc(file) THEN "docs"
    ELSE IF isAsset(file) THEN "assets"
    ELSE "other"

\* the if / else-if chain of the loop body: the list the file is pushed to
categoryOf(file) ==
    IF isTest(file) THEN "tests"
    ELSE IF isCode(file) THEN "code"
    ELSE IF isConfig(file) THEN "config"
    ELSE IF isDoc(file) THEN "docs"
    ELSE IF isAsset(file) THEN "assets"
    ELSE "other"

emptyCategories ==
    [code |-> <<>>, config |-> <<>>, docs |-> <<>>, tests |-> <<>>,
     assets |-> <<>>, other |-> <<>>]

RECURSIVE categorizeLoop_unshift(_, _)
\* mutant: each file is put at the front of its list
categorizeLoop_unshift(fs, categories) ==
    IF fs = <<>> THEN categories
    ELSE categorizeLoop_unshift(
             Tail(fs),
             [categories EXCEPT ![categoryOf(Head(fs))] = <<Head(fs)>> \o @])

RECURSIVE categorizeLoop(_, _)
\* for (const file of files): one push per file
categorizeLoop(fs, categories) ==
    IF fs = <<>> THEN categories
    ELSE categorizeLoop(Tail(fs),
                        Push(categories, categoryOf(Head(fs)), Head(fs)))

categorizeFiles(fs) == categorizeLoop(fs, emptyCategories)

(***************************************************************************)
(* SpecCat: categorizeFiles on a list of paths.                            *)
(***************************************************************************)
CatDirs == {<<"/", "w", "/">>, <<"/", "w", "/", "s", "r", "c", "/">>, <<"/", "w", "/", "t", "e", "s", "t", "/">>, <<"/", "w", "/", "l", "a", "t", "e", "s", "t", "/">>}
CatNames ==
    {<<"a", ".", "j", "s">>, <<"a", ".", "t", "e", "s", "t", ".", "j", "s">>, <<"a", ".", "s", "p", "e", "c", ".", "j", "s", "o", "n">>, <<"a", ".", "j", "s", "o", "n">>, <<"w", "e", "b", "p", "a", "c", "k", ".", "c", "o", "n", "f", "i", "g", ".", "j", "s">>,
     <<"R", "E", "A", "D", "M", "E", ".", "m", "d">>, <<"l", "o", "g", "o", ".", "p", "n", "g">>, <<"M", "a", "k", "e", "f", "i", "l", "e">>, <<".", "e", "s", "l", "i", "n", "t", "r", "c">>}
CatPaths == {d \o n : d \in CatDirs, n \in CatNames}

InitCat ==
    /\ ext = ""
    /\ content = <<>>
    /\ content2 = <<>>
    /\ options = [showAst |-> FALSE]
    /\ result = NoResult
    /\ result2 = NoResult
    /\ pc = "edit"
    /\ dirPath = <<"/", "w">>
    /\ disk = NoDisk
    /\ files = <<>>
    /\ out = NoOutput
    /\ env = NoEnv

AddFile(f) ==
    /\ pc = "edit"
    /\ Len(files) < MaxFiles
    /\ files' = Append(files, f)
    /\ UNCHANGED <<parserVars, pc, dirPath, disk, out, env>>

\* One call categorizeFiles(files).
Categorize ==
    /\ pc = "edit"
    /\ result' = categorizeFiles(files)
    /\ pc' = "returned"
    /\ UNCHANGED <<ext, content, content2, options, result2, dirPath, disk, files, out, env>>

NextCat ==
    \/ \E f \in CatPaths : AddFile(f)
    \/ Categorize

SpecCat == InitCat /\ [][NextCat]_vars

(***************************************************************************)
(* Properties of categorizeFiles, checked under SpecCat.                   *)
(***************************************************************************)
Categories == <<"tests", "code", "config", "docs", "assets", "other">>
RuleMatches(i, file) ==
    CASE i = 1 -> isTest(file)
      [] i = 2 -> isCode(file)
      [] i = 3 -> isConfig(file)
      [] i = 4 -> isDoc(file)
      [] i = 5 -> isAsset(file)
      [] i = 6 -> TRUE
FirstRule(file) ==
    CHOOSE i \in 1..6 : RuleMatches(i, file) /\ \A j \in 1..(i - 1) : ~RuleMatches(j, file)
ListsHolding(file) == {c \in Range(Categories) : file \in Range(result[c])}

\* C11: every path is put in the list of the first rule it matches, in the order
\* tests, code, config, docs, assets, other, and in no other list: a path with a
\* test marker is in tests whatever its extension, and a path with a code
\* extension and no test marker is in code even under a config file's name.
C11_FirstMatchingRule ==
    pc = "returned" =>
        \A i \in 1..Len(files) :
            /\ ListsHolding(files[i]) = {Categories[FirstRule(files[i])]}
            /\ isTest(files[i]) => files[i] \in Range(result.tests)
            /\ (isCode(files[i]) /\ ~isTest(files[i])) => files[i] \in Range(result.code)

C11_Witness ==
    /\ pc = "returned"
    /\ \E f \in Range(result.tests) : extname(f) = <<".", "j", "s", "o", "n">>
    /\ \E f \in Range(result.code) : basename(f) = <<"w", "e", "b", "p", "a", "c", "k", ".", "c", "o", "n", "f", "i", "g", ".", "j", "s">>

(***************************************************************************)
(* scanDirectory.  The disk is [files, dirs, denied]: files maps the        *)
(* absolute path of every regular file to its size, dirs holds the paths   *)
(* of the directories, denied the paths fs.stat may not look at.           *)
(***************************************************************************)
Raise(err) == [completion |-> "throw", value |-> err]
\* new Error(message); its code is undefined, written as the empty tuple
Error(message) == [message |-> message, code |-> <<>>]
ErrnoError(code, path) ==
    [message |-> code \o <<",", " ", "s", "t", "a", "t", " ", "'">> \o path \o <<"'">>, code |-> code]
ENOENT == <<"E", "N", "O", "E", "N", "T">>
EACCES == <<"E", "A", "C", "C", "E", "S">>
ENOTDIR == <<"E", "N", "O", "T", "D", "I", "R">>

\* fs.stat(path): the Stats object, or the error the call rejects with
stat(d, path) ==
    IF path \in d.denied THEN Raise(ErrnoError(EACCES, path))
    ELSE IF path \in DOMAIN d.files
    THEN Return([isDirectory |-> FALSE, size |-> d.files[path]])
    ELSE IF path \in d.dirs THEN Return([isDirectory |-> TRUE, size |-> 0])
    ELSE IF \E f \in DOMAIN d.files : StartsWithAt(path, 1, f \o <<"/">>)
    THEN Raise(ErrnoError(ENOTDIR, path))
    ELSE Raise(ErrnoError(ENOENT, path))

DEFAULT_IGNORE ==
    <<<<"*", "*", "/", "n", "o", "d", "e", "_", "m", "o", "d", "u", "l", "e", "s", "/", "*", "*">>, <<"*", "*", "/", ".", "g", "i", "t", "/", "*", "*">>, <<"*", "*", "/", "d", "i", "s", "t", "/", "*", "*">>, <<"*", "*", "/", "b", "u", "i", "l", "d", "/", "*", "*">>,
      <<"*", "*", "/", ".", "n", "e", "x", "t", "/", "*", "*">>, <<"*", "*", "/", "c", "o", "v", "e", "r", "a", "g", "e", "/", "*", "*">>, <<"*", "*", "/", "*", ".", "m", "i", "n", ".", "j", "s">>, <<"*", "*", "/", "*", ".", "m", "a", "p">>,
      <<"*", "*", "/", "p", "a", "c", "k", "a", "g", "e", "-", "l", "o", "c", "k", ".", "j", "s", "o", "n">>, <<"*", "*", "/", "y", "a", "r", "n", ".", "l", "o", "c", "k">>, <<"*", "*", "/", "p", "n", "p", "m", "-", "l", "o", "c", "k", ".", "y", "a", "m", "l">>>>

RECURSIVE matchOne(_, _)
\* one path portion against one pattern portion, "*" standing for any characters
matchOne(pat, seg) ==
    IF pat = <<>> THEN seg = <<>>
    ELSE IF Head(pat) = "*"
    THEN matchOne(Tail(pat), seg) \/ (seg # <<>> /\ matchOne(pat, Tail(seg)))
    ELSE seg # <<>> /\ Head(seg) = Head(pat) /\ matchOne(Tail(pat), Tail(seg))

RECURSIVE matchParts(_, _)
\* the portions of a path against those of a pattern, "**" standing for any
\* number of portions
matchParts(pats, segs) ==
    IF pats = <<>> THEN segs = <<>>
    ELSE IF Head(pats) = <<"*", "*">>
    THEN matchParts(Tail(pats), segs) \/ (segs # <<>> /\ matchParts(pats, Tail(segs)))
    ELSE segs # <<>> /\ matchOne(Head(pats), Head(segs))
                     /\ matchParts(Tail(pats), Tail(segs))

\* minimatch(path, pattern) with dot: true, as glob matches its ignore patterns
minimatch(path, pattern) == matchParts(split(pattern, "/"), split(path, "/"))

\* the path of a file under cwd, relative to cwd
relative(cwd, file) == From(file, Len(cwd) + 2)

\* ignore: [...DEFAULT_IGNORE, ...ignore], with the caller's patterns alone
ignorePatterns_callerOnly(ignore) == ignore

\* ignore: [...DEFAULT_IGNORE, ...ignore]
ignorePatterns(ignore) == DEFAULT_IGNORE \o ignore

\* glob(pattern, {cwd, absolute: true, nodir: true, ignore, maxDepth}): the set
\* of the absolute paths of the files under cwd, at most maxDepth levels below
\* it, that the pattern matches (no portion starting with ".") and no ignore
\* pattern matches; patterns are matched against the path relative to cwd
glob(pattern, cwd, ignore, maxDepth, d) ==
    {f \in DOMAIN d.files :
        /\ StartsWithAt(f, 1, cwd \o <<"/">>)
        /\ LET rel == relative(cwd, f)
               parts == split(rel, "/")
           IN  /\ Len(parts) <= maxDepth
               /\ \A i \in 1..Len(parts) : CharAt(parts[i], 1) # "."
               /\ matchParts(split(pattern, "/"), parts)
               /\ \A i \in 1..Len(ignore) : ~minimatch(rel, ignore[i])}

\* the UTF-16 code units of the characters paths are made of, ascending
CodeUnits ==
    <<"-", ".", "/", "0", "1", "2", "3", "4", "5", "6", "7", "8", "9",
      "A", "B", "C", "D", "E", "F", "G", "H", "I", "J", "K", "L", "M",
      "N", "O", "P", "Q", "R", "S", "T", "U", "V", "W", "X", "Y", "Z", "_",
      "a", "b", "c", "d", "e", "f", "g", "h", "i", "j", "k", "l", "m",
      "n", "o", "p", "q", "r", "s", "t", "u", "v", "w", "x", "y", "z">>
codeUnit(c) == CHOOSE i \in 1..Len(CodeUnits) : CodeUnits[i] = c

RECURSIVE lessThan(_, _)
\* a < b on strings: the comparison of Array.prototype.sort() without comparator
lessThan(a, b) ==
    IF b = <<>> THEN FALSE
    ELSE IF a = <<>> THEN TRUE
    ELSE IF Head(a) = Head(b) THEN lessThan(Tail(a), Tail(b))
    ELSE codeUnit(Head(a)) < codeUnit(Head(b))

\* files.sort()
sort(list) == SortSeq(list, lessThan)

\* const { maxDepth = 10, ignore = [] } = options
withDefault(opts, field, default) ==
    IF field \in DOMAIN opts THEN opts[field] ELSE default

\* the catch clause of the root check, turning every failure into "not found"
catchStat_alwaysNotFound(err, path) ==
    Raise(Error(<<"D", "i", "r", "e", "c", "t", "o", "r", "y", " ", "n", "o", "t", " ", "f", "o", "u", "n", "d", ":", " ">> \o path))

\* the catch clause of the root check
catchStat(err, path) ==
    IF err.code = ENOENT
    THEN Raise(Error(<<"D", "i", "r", "e", "c", "t", "o", "r", "y", " ", "n", "o", "t", " ", "f", "o", "u", "n", "d", ":", " ">> \o path))
    ELSE Raise(err)

\* lines 29-40: Return when the root is a directory
rootCheck(path, d) ==
    LET stats == stat(d, path)
    IN  IF stats.completion = "throw" THEN catchStat(stats.value, path)
        ELSE IF ~stats.value.isDirectory
        THEN catchStat(Error(path \o <<" ", "i", "s", " ", "n", "o", "t", " ", "a", " ", "d", "i", "r", "e", "c", "t", "o", "r", "y">>), path)
        ELSE Return(stats.value)

\* what scanDirectory calls glob for
globbed(path, opts, d) ==
    LET maxDepth == withDefault(opts, "maxDepth", 10)
        depthPattern == IF maxDepth > 0 THEN <<"*", "*", "/", "*">> ELSE <<"*">>
    IN  glob(depthPattern, path, ignorePatterns(withDefault(opts, "ignore", <<>>)),
             maxDepth, d)

\* scanDirectory(dirPath, options), glob listing its matches in the order
\* listing; calls holds the library calls made
scanDirectory(path, opts, d, listing) ==
    LET checked == rootCheck(path, d)
    IN  IF checked.completion = "throw"
        THEN [completion |-> "throw", value |-> checked.value, calls |-> <<"fs.stat">>]
        ELSE [completion |-> "return", value |-> sort(listing),
              calls |-> <<"fs.stat", "glob">>]

(***************************************************************************)
(* getFileStats.  An object used as a map is a function from its keys.     *)
(***************************************************************************)
\* obj[key] = (obj[key] || 0) + 1
increment(obj, key) ==
    IF key \in DOMAIN obj THEN [obj EXCEPT ![key] = @ + 1] ELSE obj @@ (key :> 1)

\* path.extname(file) || '(no extension)'
extensionKey(file) ==
    IF extname(file) = <<>> THEN <<"(", "n", "o", " ", "e", "x", "t", "e", "n", "s", "i", "o", "n", ")">> ELSE extname(file)

\* path.dirname(file).split(path.sep)[0] || '.'
directoryKey(file) ==
    LET first == split(dirname(file), "/")[1]
    IN  IF first = <<>> THEN <<".">> ELSE first

\* lines 79-84 without the try: a failure of fs.stat is thrown on
fileSize_unguarded(d, file) ==
    LET fileStat == stat(d, file)
    IN  IF fileStat.completion = "throw" THEN fileStat
        ELSE Return(fileStat.value.size)

\* lines 79-84: what the file adds to totalSize
fileSize(d, file) ==
    LET fileStat == stat(d, file)
    IN  IF fileStat.completion = "throw" THEN Return(0)
        ELSE Return(fileStat.value.size)

RECURSIVE statsLoop(_, _, _)
statsLoop(fs, stats, d) ==
    IF fs = <<>> THEN Return(stats)
    ELSE LET file == Head(fs)
             size == fileSize(d, file)
         IN  IF size.completion = "throw" THEN size
             ELSE statsLoop(Tail(fs),
                            [stats EXCEPT
                                !.byExtension = increment(@, extensionKey(file)),
                                !.byDirectory = increment(@, directoryKey(file)),
                                !.totalSize = @ + size.value],
                            d)

getFileStats(fs, d) ==
    statsLoop(fs, [total |-> Len(fs), byExtension |-> <<>>, byDirectory |-> <<>>,
                   totalSize |-> 0], d)

(***************************************************************************)
(* SpecScan: scanDirectory on a directory tree, then getFileStats on the   *)
(* list it returned; files may be unlinked between the two.                *)
(***************************************************************************)
ScanFiles ==
    {<<"/", "w", "/", "a", ".", "j", "s">>, <<"/", "w", "/", "s", "r", "c", "/", "c", ".", "t", "s">>, <<"/", "w", "/", "s", "r", "c", "/", "b", ".", "m", "i", "n", ".", "j", "s">>, <<"/", "w", "/", "d", "i", "s", "t", "/", "d", ".", "j", "s">>,
     <<"/", "w", "/", "d", "i", "s", "t", "/", "s", "r", "c", "/", "e", ".", "p", "y">>, <<"/", "w", "/", "n", "o", "d", "e", "_", "m", "o", "d", "u", "l", "e", "s", "/", "m", "/", "i", ".", "j", "s">>}
ScanRoots == {<<"/", "w">>, <<"/", "w", "/", "s", "r", "c">>, <<"/", "w", "/", "d", "i", "s", "t">>, <<"/", "w", "/", "a", ".", "j", "s">>, <<"/", "w", "/", "a", ".", "j", "s", "/", "x">>, <<"/", "x">>}
ScanOptions ==
    {[maxDepth |-> 0], [maxDepth |-> 1], [maxDepth |-> 5],
     [ignore |-> <<<<"*", "*", "/", "*", ".", "t", "s">>>>], [ignore |-> <<<<"s", "r", "c", "/", "*", "*">>>>, maxDepth |-> 2]}
Ancestors(f) == {SubSeq(f, 1, i - 1) : i \in {j \in 2..Len(f) : f[j] = "/"}}
Orders(S) ==
    {o \in [1..Cardinality(S) -> S] : \A x \in S : \E i \in DOMAIN o : o[i] = x}

InitScan ==
    /\ ext = ""
    /\ content = <<>>
    /\ content2 = <<>>
    /\ options \in ScanOptions
    /\ result = NoResult
    /\ result2 = NoResult
    /\ pc = "edit"
    /\ dirPath \in ScanRoots
    /\ \E present \in SUBSET ScanFiles, denied \in {{}, {dirPath}} :
           disk = [files |-> [f \in present |-> 100 * Len(f)],
                   dirs |-> UNION {Ancestors(f) : f \in present},
                   denied |-> denied,
                   text |-> <<>>]
    /\ files = <<>>
    /\ out = <<>>
    /\ env = NoEnv

\* One call scanDirectory(dirPath, options).
ScanDirectory ==
    /\ pc = "edit"
    /\ \E listing \in Orders(globbed(dirPath, options, disk)) :
           LET r == scanDirectory(dirPath, options, disk, listing)
           IN  /\ result' = r.value
               /\ out' = r.calls
               /\ files' = IF r.completion = "return" THEN r.value ELSE files
               /\ pc' = IF r.completion = "return" THEN "scanned" ELSE "raised"
    /\ UNCHANGED <<ext, content, content2, options, result2, dirPath, disk, env>>

\* A file of the list is removed from the disk after the scan.
Unlink(f) ==
    /\ pc = "scanned"
    /\ f \in DOMAIN disk.files
    /\ disk' = [disk EXCEPT !.files = [g \in DOMAIN disk.files \ {f} |-> disk.files[g]]]
    /\ UNCHANGED <<parserVars, pc, dirPath, files, out, env>>

\* One call getFileStats(files), as analyzeProject makes it on the list
\* scanDirectory returned.
GetFileStats ==
    LET r == getFileStats(files, disk)
    IN  /\ pc = "scanned"
        /\ result' = r.value
        /\ pc' = IF r.completion = "return" THEN "counted" ELSE "raised"
        /\ UNCHANGED <<ext, content, content2, options, result2, dirPath, disk, files, out, env>>

NextScan ==
    \/ ScanDirectory
    \/ \E f \in Range(files) : Unlink(f)
    \/ GetFileStats

SpecScan == InitScan /\ [][NextScan]_vars

(***************************************************************************)
(* Properties of scanDirectory, checked under SpecScan.                    *)
(***************************************************************************)
IsSorted(list) == \A i, j \in 1..Len(list) : i < j => ~lessThan(list[j], list[i])
NoDuplicates(list) == \A i, j \in 1..Len(list) : list[i] = list[j] => i = j
IgnoreSet == Range(DEFAULT_IGNORE) \cup Range(withDefault(options, "ignore", <<>>))

\* C12 as stated: the list scanDirectory returns is sorted ascending, has no
\* duplicates and holds no path that matches a default or caller-supplied
\* ignore pattern.
C12_NoIgnoredPath ==
    pc = "scanned" =>
        /\ IsSorted(result)
        /\ NoDuplicates(result)
        /\ \A f \in Range(result), pattern \in IgnoreSet : ~minimatch(f, pattern)

\* C12, amended: the list scanDirectory returns is sorted ascending, has no
\* duplicates and holds no path whose part relative to the scanned root
\* matches a default or caller-supplied ignore pattern.
C12_NoIgnoredRelativePath ==
    pc = "scanned" =>
        /\ IsSorted(result)
        /\ NoDuplicates(result)
        /\ \A f \in Range(result), pattern \in IgnoreSet :
               ~minimatch(relative(dirPath, f), pattern)

C12_Witness ==
    /\ pc = "scanned"
    /\ Len(result) >= 2
    /\ \E f \in DOMAIN disk.files :
           /\ StartsWithAt(f, 1, dirPath \o <<"/">>)
           /\ f \notin Range(result)
           /\ \E pattern \in Range(DEFAULT_IGNORE) : minimatch(relative(dirPath, f), pattern)

RootStat == stat(disk, dirPath)

\* C13: scanDirectory on a missing root throws 'Directory not found', on a
\* root that is not a directory throws 'is not a directory', and on any other
\* failure of fs.stat throws that failure unchanged; in each case glob has not
\* been called.
C13_RootErrors ==
    pc \in {"scanned", "raised"} =>
        /\ (RootStat.completion = "throw" /\ RootStat.value.code = ENOENT) =>
               /\ pc = "raised"
               /\ result.message = <<"D", "i", "r", "e", "c", "t", "o", "r", "y", " ", "n", "o", "t", " ", "f", "o", "u", "n", "d", ":", " ">> \o dirPath
        /\ (RootStat.completion = "return" /\ ~RootStat.value.isDirectory) =>
               /\ pc = "raised"
               /\ result.message = dirPath \o <<" ", "i", "s", " ", "n", "o", "t", " ", "a", " ", "d", "i", "r", "e", "c", "t", "o", "r", "y">>
        /\ (RootStat.completion = "throw" /\ RootStat.value.code # ENOENT) =>
               /\ pc = "raised"
               /\ result = RootStat.value
        /\ pc = "raised" => out = <<"fs.stat">>

C13_Witness ==
    /\ pc = "raised"
    /\ RootStat.completion = "return"
    /\ ~RootStat.value.isDirectory
    /\ result.message = dirPath \o <<" ", "i", "s", " ", "n", "o", "t", " ", "a", " ", "d", "i", "r", "e", "c", "t", "o", "r", "y">>

(***************************************************************************)
(* Properties of getFileStats, checked under SpecScan.                     *)
(***************************************************************************)
RECURSIVE SumOver(_, _)
SumOver(f, keys) ==
    IF keys = {} THEN 0
    ELSE LET k == CHOOSE x \in keys : TRUE IN f[k] + SumOver(f, keys \ {k})
Counts(obj) == SumOver(obj, DOMAIN obj)
Statable == {i \in 1..Len(files) : stat(disk, files[i]).completion = "return"}
SizeAt == [i \in 1..Len(files) |->
              IF i \in Statable THEN stat(disk, files[i]).value.size ELSE 0]

\* C14: getFileStats returns whether or not every file can be stat-ed; total is
\* the number of paths, the counts of byExtension and of byDirectory each sum
\* to total, and totalSize is the sum of the sizes of the files fs.stat
\* succeeded on.
C14_StatsDespiteStatFailures ==
    (pc \in {"counted", "raised"} /\ out = <<"fs.stat", "glob">>) =>
        /\ pc = "counted"
        /\ result.total = Len(files)
        /\ Counts(result.byExtension) = result.total
        /\ Counts(result.byDirectory) = result.total
        /\ result.totalSize = SumOver(SizeAt, Statable)

C14_Witness ==
    /\ pc = "counted"
    /\ Statable # {}
    /\ Statable # 1..Len(files)
    /\ result.totalSize > 0

RelativeParts(f) == split(relative(dirPath, f), "/")
TopLevel(f) == IF Len(RelativeParts(f)) = 1 THEN <<".">> ELSE RelativeParts(f)[1]

\* C15: the histogram byDirectory counts each scanned file under the first
\* portion of its path relative to the project root, and under '.' only the
\* files that lie directly in the root.
C15_TopLevelHistogram ==
    pc = "counted" =>
        /\ DOMAIN result.byDirectory = {TopLevel(files[i]) : i \in 1..Len(files)}
        /\ \A k \in DOMAIN result.byDirectory :
               result.byDirectory[k] =
                   Cardinality({i \in 1..Len(files) : TopLevel(files[i]) = k})

(***************************************************************************)
(* The project analyzer (src/src/lib/analyzer.js).  disk.text maps the     *)
(* path of a file to what fs.readFile yields for it: the characters of a   *)
(* text file, or for a JSON file the value its text denotes (JMalformed    *)
(* when it denotes none).  A JavaScript string value is JText(characters), *)
(* an object is JObject(entries), its property names are strings.          *)
(***************************************************************************)
Null == "<null>"
JUndefined == [json |-> "undefined"]
JText(chars) == [json |-> "string", text |-> chars]
EmptyObject == JObject(<<>>)

\* v[key] on a value JSON.parse returned
get(v, key) ==
    IF v.json = "object" /\ HasProperty(v.entries, key)
    THEN GetProperty(v.entries, key)
    ELSE JUndefined

\* ToBoolean(v)
truthy(v) ==
    CASE v.json \in {"undefined", "null"} -> FALSE
      [] v.json = "string" -> v.text # <<>>
      [] OTHER -> TRUE

\* v || other
orElse(v, other) == IF truthy(v) THEN v ELSE other

\* path.join(projectPath, name)
join(projectPath, name) == projectPath \o <<"/">> \o name

\* fs.readFile(path, 'utf-8')
readFile(d, path) ==
    IF path \in d.denied THEN Raise(ErrnoError(EACCES, path))
    ELSE IF path \in DOMAIN d.text THEN Return(d.text[path])
    ELSE Raise(ErrnoError(ENOENT, path))

\* fs.access(path)
access(d, path) ==
    IF path \in DOMAIN d.text \cup DOMAIN d.files \cup d.dirs THEN Return(JUndefined)
    ELSE Raise(ErrnoError(ENOENT, path))

NameChars == LowerCase \cup UpperCase \cup Digits \cup {"_", "-"}   \* [a-zA-Z0-9_-]
SpecifierChars == {"<", ">", "=", "!"}                               \* [<>=!]

\* /^([a-zA-Z0-9_-]+)([<>=!]+.+)$/ : the specifier group made mandatory
requirementRegex_specifierRequired(line) ==
    LET i == SpanEnd(line, 1, NameChars, FALSE)
        rest == From(line, i)
    IN  IF /\ i > 1
           /\ Len(rest) >= 2
           /\ rest[1] \in SpecifierChars
           /\ \A j \in 2..Len(rest) : rest[j] \notin {"\n", "\r"}
        THEN [matched |-> TRUE, name |-> SubSeq(line, 1, i - 1), specifier |-> rest]
        ELSE NoMatch

\* trimmed.match(/^([a-zA-Z0-9_-]+)([<>=!]+.+)?$/): group 1 is the longest run
\* of name characters; group 2, when the line goes on, is all the rest, which
\* must start with a specifier character, hold one more character at least
\* and no line terminator; specifier <<>> stands for an undefined group 2
requirementRegex(line) ==
    LET i == SpanEnd(line, 1, NameChars, FALSE)
        rest == From(line, i)
    IN  IF i = 1 THEN NoMatch
        ELSE IF rest = <<>>
        THEN [matched |-> TRUE, name |-> SubSeq(line, 1, i - 1), specifier |-> <<>>]
        ELSE IF /\ Len(rest) >= 2
                /\ rest[1] \in SpecifierChars
                /\ \A j \in 2..Len(rest) : rest[j] \notin {"\n", "\r"}
        THEN [matched |-> TRUE, name |-> SubSeq(line, 1, i - 1), specifier |-> rest]
        ELSE NoMatch

RECURSIVE requirementsLoop(_, _)
requirementsLoop(lines, deps) ==
    IF lines = <<>> THEN deps
    ELSE LET trimmed == trim(Head(lines))
             match == requirementRegex(trimmed)
         IN  IF trimmed # <<>> /\ ~StartsWithAt(trimmed, 1, <<"#">>) /\ match.matched
             THEN requirementsLoop(Tail(lines),
                      SetProperty(deps, Str(match.name),
                                  JText(IF match.specifier = <<>> THEN <<"*">>
                                        ELSE match.specifier)))
             ELSE requirementsLoop(Tail(lines), deps)

\* the object parseRequirements returns
parseRequirements(text) == JObject(requirementsLoop(split(text, "\n"), <<>>))

noDependencies ==
    [manager |-> Null, dependencies |-> EmptyObject, devDependencies |-> EmptyObject]

\* lines 75-85: the package.json probe; returned tells whether it returned deps
npmProbe(projectPath, d, deps) ==
    LET text == readFile(d, join(projectPath, <<"p", "a", "c", "k", "a", "g", "e", ".", "j", "s", "o", "n">>))
        packageJson == JSONparse(text.value)
    IN  IF text.completion = "throw" \/ packageJson.threw
        THEN [returned |-> FALSE, deps |-> deps]
        ELSE IF packageJson.value.json = "null"     \* TypeError at line 80
        THEN [returned |-> FALSE, deps |-> [deps EXCEPT !.manager = "npm"]]
        ELSE [returned |-> TRUE,
              deps |-> [manager |-> "npm",
                        dependencies |->
                            orElse(get(packageJson.value, "dependencies"), EmptyObject),
                        devDependencies |->
                            orElse(get(packageJson.value, "devDependencies"), EmptyObject)]]

\* lines 87-98: the requirements.txt probe
pipProbe(projectPath, d, deps) ==
    LET requirements == readFile(d, join(projectPath, <<"r", "e", "q", "u", "i", "r", "e", "m", "e", "n", "t", "s", ".", "t", "x", "t">>))
    IN  IF requirements.completion = "throw"
        THEN [returned |-> FALSE, deps |-> deps]
        ELSE [returned |-> TRUE,
              deps |-> [deps EXCEPT !.manager = "pip",
                                    !.dependencies = parseRequirements(requirements.value)]]

\* lines 100-107: the pyproject.toml probe
poetryProbe(projectPath, d, deps) ==
    IF access(d, join(projectPath, <<"p", "y", "p", "r", "o", "j", "e", "c", "t", ".", "t", "o", "m", "l">>)).completion = "throw"
    THEN [returned |-> FALSE, deps |-> deps]
    ELSE [returned |-> TRUE, deps |-> [deps EXCEPT !.manager = "poetry/pip"]]

analyzeDependencies(projectPath, d) ==
    LET npm == npmProbe(projectPath, d, noDependencies)
        pip == pipProbe(projectPath, d, npm.deps)
        poetry == poetryProbe(projectPath, d, pip.deps)
    IN  IF npm.returned THEN npm.deps
        ELSE IF pip.returned THEN pip.deps
        ELSE poetry.deps

(***************************************************************************)
(* SpecDeps: analyzeDependencies on a project root /w that may hold        *)
(* package.json, requirements.txt (written line by line) and               *)
(* pyproject.toml.                                                         *)
(***************************************************************************)
ProjectRoot == <<"/", "w">>
PackagePath == join(ProjectRoot, <<"p", "a", "c", "k", "a", "g", "e", ".", "j", "s", "o", "n">>)
RequirementsPath == join(ProjectRoot, <<"r", "e", "q", "u", "i", "r", "e", "m", "e", "n", "t", "s", ".", "t", "x", "t">>)
PyprojectPath == join(ProjectRoot, <<"p", "y", "p", "r", "o", "j", "e", "c", "t", ".", "t", "o", "m", "l">>)

PackageTexts ==
    {JMalformed, JNull, EmptyObject,
     JObject(<<Entry("dependencies", JObject(<<Entry("react", JText(<<"^", "1", "8">>))>>))>>),
     JObject(<<Entry("dependencies", JObject(<<Entry("express", JText(<<"^", "4">>))>>)),
               Entry("devDependencies", JObject(<<Entry("jest", JText(<<"^", "2", "9">>))>>))>>)}
RequirementLines ==
    {<<"f", "l", "a", "s", "k", "=", "=", "2", ".", "0">>, <<"a">>, <<"a", ">", "=", "1", ",", "<", "2">>, <<"#", " ", "c">>, <<>>, <<"a", "~", "=", "1">>, <<"a", " ", "=", "=", "1">>,
     <<" ", "b", "<", "2", "\r">>, <<"-", "e", " ", ".">>}

InitDeps ==
    /\ ext = ""
    /\ content = <<>>
    /\ content2 = <<>>
    /\ options = [showAst |-> FALSE]
    /\ result = NoResult
    /\ result2 = NoResult
    /\ pc = "edit"
    /\ dirPath = ProjectRoot
    /\ \E package \in SUBSET {PackagePath}, pyproject \in SUBSET {PyprojectPath},
          denied \in SUBSET {PackagePath}, text \in PackageTexts :
           disk = [files |-> [f \in package \cup pyproject |-> 100],
                   dirs |-> {ProjectRoot},
                   denied |-> denied \cap package,
                   text |-> [f \in package |-> text]]
    /\ files = <<>>
    /\ out = <<>>
    /\ env = NoEnv

\* A line is written at the end of requirements.txt.
WriteRequirement(line) ==
    /\ pc = "edit"
    /\ IF RequirementsPath \in DOMAIN disk.text
       THEN /\ Len(split(disk.text[RequirementsPath], "\n")) < MaxLines
            /\ disk' = [disk EXCEPT !.text[RequirementsPath] = @ \o <<"\n">> \o line]
       ELSE disk' = [disk EXCEPT !.text = @ @@ (RequirementsPath :> line),
                                 !.files = @ @@ (RequirementsPath :> 100)]
    /\ UNCHANGED <<parserVars, pc, dirPath, files, out, env>>

\* One call analyzeDependencies(projectPath).
AnalyzeDependencies ==
    /\ pc = "edit"
    /\ result' = analyzeDependencies(dirPath, disk)
    /\ pc' = "returned"
    /\ UNCHANGED <<ext, content, content2, options, result2, dirPath, disk, files, out, env>>

NextDeps ==
    \/ \E line \in RequirementLines : WriteRequirement(line)
    \/ AnalyzeDependencies

SpecDeps == InitDeps /\ [][NextDeps]_vars

(***************************************************************************)
(* Properties of analyzeDependencies and parseRequirements, checked under  *)
(* SpecDeps.                                                               *)
(***************************************************************************)
PackageRead == readFile(disk, PackagePath)
PackageParses == PackageRead.completion = "return" /\ IsJSON(PackageRead.value)
RequirementsReadable == readFile(disk, RequirementsPath).completion = "return"
PyprojectExists == access(disk, PyprojectPath).completion = "return"

\* C16: the first probe that succeeds determines the result alone: package.json
\* readable and parsing gives manager 'npm' and its mappings, whatever else
\* exists; 'pip' comes only after the package.json probe failed, with
\* requirements.txt readable; 'poetry/pip' only after both failed, with
\* pyproject.toml there.
C16_FirstProbeWins ==
    pc = "returned" =>
        /\ PackageParses =>
               /\ result.manager = "npm"
               /\ result.dependencies =
                      orElse(get(PackageRead.value, "dependencies"), EmptyObject)
               /\ result.devDependencies =
                      orElse(get(PackageRead.value, "devDependencies"), EmptyObject)
        /\ result.manager = "pip" => (~PackageParses /\ RequirementsReadable)
        /\ result.manager = "poetry/pip" =>
               (~PackageParses /\ ~RequirementsReadable /\ PyprojectExists)

RequirementsText == disk.text[RequirementsPath]
Trimmed == [n \in 1..Len(split(RequirementsText, "\n")) |->
               trim(split(RequirementsText, "\n")[n])]
Entries == result.dependencies.entries
StarOr(specifier) == JText(IF specifier = <<>> THEN <<"*">> ELSE specifier)
IsRequirement(n) == Trimmed[n] # <<>> /\ Trimmed[n][1] # "#"
\* line n is a name followed by nothing or by a specifier that starts with one
\* of < > = ! and holds two characters at least
NameLength(n) ==
    {i \in 1..Len(Trimmed[n]) :
        /\ \A j \in 1..i : Trimmed[n][j] \in NameChars
        /\ \/ i = Len(Trimmed[n])
           \/ /\ Trimmed[n][i + 1] \in SpecifierChars
              /\ Len(Trimmed[n]) >= i + 2
              /\ \A j \in (i + 2)..Len(Trimmed[n]) : Trimmed[n][j] # "\r"}
Overridden(n, i) ==
    \E m \in (n + 1)..Len(Trimmed) :
        \E k \in NameLength(m) : SubSeq(Trimmed[m], 1, k) = SubSeq(Trimmed[n], 1, i)

\* C17 as stated: blank lines and lines starting with '#' are ignored, and
\* every other line of requirements.txt is recorded: its package name mapped
\* to its specifier text, or to '*' when it has none.
C17_EveryLineRecorded ==
    (pc = "returned" /\ result.manager = "pip") =>
        \A n \in DOMAIN Trimmed :
            IsRequirement(n) =>
                \E i \in 1..Len(Trimmed[n]) :
                    /\ HasProperty(Entries, Str(SubSeq(Trimmed[n], 1, i)))
                    /\ \/ GetProperty(Entries, Str(SubSeq(Trimmed[n], 1, i)))
                              = StarOr(From(Trimmed[n], i + 1))
                       \/ \E m \in (n + 1)..Len(Trimmed) :
                              StartsWithAt(Trimmed[m], 1, SubSeq(Trimmed[n], 1, i))

\* C17, amended: blank lines, lines starting with '#' and lines that are not a
\* name followed by nothing or by a specifier starting with < > = ! are
\* ignored; every other line is recorded, its name mapped to its specifier
\* text, or to '*' when it has none (the last line of a name counts).
C17_WellFormedLinesRecorded ==
    (pc = "returned" /\ result.manager = "pip") =>
        /\ {Entries[e].key : e \in DOMAIN Entries} =
               UNION {{Str(SubSeq(Trimmed[n], 1, i)) : i \in NameLength(n)} :
                          n \in {m \in DOMAIN Trimmed : IsRequirement(m)}}
        /\ \A n \in DOMAIN Trimmed :
               \A i \in NameLength(n) :
                   (IsRequirement(n) /\ ~Overridden(n, i)) =>
                       GetProperty(Entries, Str(SubSeq(Trimmed[n], 1, i)))
                           = StarOr(From(Trimmed[n], i + 1))

C17_Witness ==
    /\ pc = "returned"
    /\ PackagePath \notin DOMAIN disk.text
    /\ RequirementsPath \in DOMAIN disk.text
    /\ Len(Trimmed) = 2
    /\ Trimmed[1] = <<"f", "l", "a", "s", "k", "=", "=", "2", ".", "0">>
    /\ result.manager = "pip"
    /\ result.dependencies = JObject(<<Entry("flask", JText(<<"=", "=", "2", ".", "0">>))>>)

(***************************************************************************)
(* analyzeStructure, findEntryPoints, detectTechStack and analyzeProject.  *)
(***************************************************************************)
\* Set.prototype.add on a set kept in insertion order
add(set, member) == IF member \in Range(set) THEN set ELSE Append(set, member)

RECURSIVE directoryLoop(_, _, _, _)
\* the loop over parts[0] .. parts[length - 2] (analyzer.js 48-52); path.join
\* of two portions is the two with a separator between them
directoryLoop(parts, i, currentPath, directories) ==
    IF i > Len(parts) - 1 THEN directories
    ELSE LET joined == IF currentPath # <<>> THEN currentPath \o <<"/">> \o parts[i]
                       ELSE parts[i]
         IN  directoryLoop(parts, i + 1, joined, add(directories, joined))

\* mutant: the depth counts the directories of a path, not its file name
trackDepth_directories(depth, parts) == Max(depth, Len(parts) - 1)

\* structure.depth = Math.max(structure.depth, parts.length)
trackDepth(depth, parts) == Max(depth, Len(parts))

RECURSIVE structureLoop(_, _, _)
structureLoop(projectPath, fs, structure) ==
    IF fs = <<>> THEN structure
    ELSE LET parts == split(relative(projectPath, Head(fs)), "/")
         IN  structureLoop(projectPath, Tail(fs),
                 [directories |-> directoryLoop(parts, 1, <<>>, structure.directories),
                  depth |-> trackDepth(structure.depth, parts)])

\* analyzeStructure; tree stays {} and is left out
analyzeStructure(projectPath, fs) ==
    LET structure == structureLoop(projectPath, fs, [directories |-> <<>>, depth |-> 0])
    IN  [directories |-> sort(structure.directories), depth |-> structure.depth]

commonEntries ==
    <<<<"i", "n", "d", "e", "x", ".", "j", "s">>, <<"i", "n", "d", "e", "x", ".", "t", "s">>, <<"m", "a", "i", "n", ".", "j", "s">>, <<"m", "a", "i", "n", ".", "t", "s">>,
      <<"a", "p", "p", ".", "j", "s">>, <<"a", "p", "p", ".", "t", "s">>, <<"s", "e", "r", "v", "e", "r", ".", "j", "s">>, <<"s", "e", "r", "v", "e", "r", ".", "t", "s">>,
      <<"s", "r", "c", "/", "i", "n", "d", "e", "x", ".", "j", "s">>, <<"s", "r", "c", "/", "i", "n", "d", "e", "x", ".", "t", "s">>, <<"s", "r", "c", "/", "m", "a", "i", "n", ".", "j", "s">>, <<"s", "r", "c", "/", "m", "a", "i", "n", ".", "t", "s">>,
      <<"s", "r", "c", "/", "a", "p", "p", ".", "j", "s">>, <<"s", "r", "c", "/", "a", "p", "p", ".", "t", "s">>,
      <<"m", "a", "i", "n", ".", "p", "y">>, <<"a", "p", "p", ".", "p", "y">>, <<"_", "_", "m", "a", "i", "n", "_", "_", ".", "p", "y">>,
      <<"c", "m", "d", "/", "m", "a", "i", "n", ".", "g", "o">>, <<"m", "a", "i", "n", ".", "g", "o">>>>

\* Object.values(v)
values(v) ==
    CASE v.json = "object" -> [i \in 1..Len(v.entries) |-> v.entries[i].value]
      [] v.json = "array" -> v.items
      [] OTHER -> <<>>

RECURSIVE unique(_)
\* [...new Set(list)]: the first occurrence of every element, in order
unique(list) ==
    IF list = <<>> THEN <<>>
    ELSE LET front == unique(SubSeq(list, 1, Len(list) - 1))
             last == list[Len(list)]
         IN  IF \E i \in 1..Len(front) : front[i] = last THEN front
             ELSE Append(front, last)

\* lines 151-156: the conventional entries found in the file list
conventionalEntries(projectPath, fs) ==
    SelectSeq([i \in 1..Len(commonEntries) |-> JText(commonEntries[i])],
              LAMBDA entry : \E i \in 1..Len(fs) : fs[i] = join(projectPath, entry.text))

\* lines 159-172 with the catch rethrowing
declaredEntries_unguarded(projectPath, d) ==
    LET text == readFile(d, join(projectPath, <<"p", "a", "c", "k", "a", "g", "e", ".", "j", "s", "o", "n">>))
        packageJson == JSONparse(text.value)
    IN  IF text.completion = "throw" THEN text
        ELSE IF packageJson.threw \/ packageJson.value.json = "null"
        THEN Raise(Error(<<"U", "n", "e", "x", "p", "e", "c", "t", "e", "d", " ", "t", "o", "k", "e", "n">>))
        ELSE LET main == get(packageJson.value, "main")
                 bin == get(packageJson.value, "bin")
             IN  Return((IF truthy(main) THEN <<main>> ELSE <<>>) \o
                        (IF ~truthy(bin) THEN <<>>
                         ELSE IF bin.json = "string" THEN <<bin>>
                         ELSE values(bin)))

\* lines 159-172: what the package.json block pushes
declaredEntries(projectPath, d) ==
    LET text == readFile(d, join(projectPath, <<"p", "a", "c", "k", "a", "g", "e", ".", "j", "s", "o", "n">>))
        packageJson == JSONparse(text.value)
    IN  IF text.completion = "throw" THEN Return(<<>>)
        ELSE IF packageJson.threw \/ packageJson.value.json = "null"
        THEN Return(<<>>)
        ELSE LET main == get(packageJson.value, "main")
                 bin == get(packageJson.value, "bin")
             IN  Return((IF truthy(main) THEN <<main>> ELSE <<>>) \o
                        (IF ~truthy(bin) THEN <<>>
                         ELSE IF bin.json = "string" THEN <<bin>>
                         ELSE values(bin)))

findEntryPoints(projectPath, fs, d) ==
    LET declared == declaredEntries(projectPath, d)
    IN  IF declared.completion = "throw" THEN declared
        ELSE Return(unique(conventionalEntries(projectPath, fs) \o declared.value))

\* the rule table of detectTechStack: the tag, and the extensions or the
\* dependency names that trigger it
languageRules ==
    <<[tag |-> "JavaScript", extensions |-> {<<".", "j", "s">>, <<".", "m", "j", "s">>, <<".", "c", "j", "s">>}],
      [tag |-> "TypeScript", extensions |-> {<<".", "t", "s">>, <<".", "t", "s", "x">>}],
      [tag |-> "Python", extensions |-> {<<".", "p", "y">>}],
      [tag |-> "Go", extensions |-> {<<".", "g", "o">>}],
      [tag |-> "Rust", extensions |-> {<<".", "r", "s">>}]>>
dependencyRules ==
    <<[tag |-> "React", names |-> {"react", "react-dom"}],
      [tag |-> "Vue", names |-> {"vue"}],
      [tag |-> "Angular", names |-> {"@angular/core"}],
      [tag |-> "Next.js", names |-> {"next"}],
      [tag |-> "Express", names |-> {"express"}],
      [tag |-> "Fastify", names |-> {"fastify"}],
      [tag |-> "NestJS", names |-> {"nestjs", "@nestjs/core"}],
      [tag |-> "Webpack", names |-> {"webpack"}],
      [tag |-> "Vite", names |-> {"vite"}],
      [tag |-> "Jest", names |-> {"jest"}],
      [tag |-> "Mocha", names |-> {"mocha"}],
      [tag |-> "Tailwind CSS", names |-> {"tailwindcss"}]>>

RECURSIVE assign(_, _)
\* { ...target, ...source } on the entries of two objects
assign(target, source) ==
    IF source = <<>> THEN target
    ELSE assign(SetProperty(target, Head(source).key, Head(source).value), Tail(source))

\* if (allDeps[name]) : the condition of a framework or tool rule
hasDependency(allDeps, name) ==
    HasProperty(allDeps, name) /\ truthy(GetProperty(allDeps, name))

tags(rules) == [i \in 1..Len(rules) |-> rules[i].tag]

detectTechStack(analysis) ==
    LET allDeps == assign(analysis.dependencies.dependencies.entries,
                          analysis.dependencies.devDependencies.entries)
        fileExts == DOMAIN analysis.stats.byExtension
    IN  tags(SelectSeq(languageRules,
                       LAMBDA rule : \E e \in fileExts : e \in rule.extensions))
        \o tags(SelectSeq(dependencyRules,
                          LAMBDA rule : \E n \in rule.names : hasDependency(allDeps, n)))

\* analyzeProject(projectPath, files)
analyzeProject(projectPath, fs, d) ==
    LET stats == getFileStats(fs, d)
        entryPoints == findEntryPoints(projectPath, fs, d)
        analysis == [name |-> basename(projectPath),
                     path |-> projectPath,
                     files |-> fs,
                     stats |-> stats.value,
                     categories |-> categorizeFiles(fs),
                     structure |-> analyzeStructure(projectPath, fs),
                     dependencies |-> analyzeDependencies(projectPath, d),
                     entryPoints |-> entryPoints.value,
                     techStack |-> <<>>]
    IN  IF stats.completion = "throw" THEN stats
        ELSE IF entryPoints.completion = "throw" THEN entryPoints
        ELSE Return([analysis EXCEPT !.techStack = detectTechStack(analysis)])

(***************************************************************************)
(* SpecProject: analyzeProject on the root /w, a sorted list of its files  *)
(* and its package.json.                                                   *)
(***************************************************************************)
ProjectFiles ==
    {<<"/", "w", "/", "i", "n", "d", "e", "x", ".", "j", "s">>, <<"/", "w", "/", "s", "r", "c", "/", "i", "n", "d", "e", "x", ".", "t", "s">>, <<"/", "w", "/", "m", "a", "i", "n", ".", "p", "y">>, <<"/", "w", "/", "l", "i", "b", ".", "j", "s">>,
     <<"/", "w", "/", "c", "m", "d", "/", "m", "a", "i", "n", ".", "g", "o">>,
     <<"/", "w", "/", "s", "r", "c", "/", "l", "i", "b", "/", "a", ".", "j", "s">>, <<"/", "w", "/", "s", "r", "c", "-", "x", "/", "b", ".", "j", "s">>}
Dependencies(entries) == Entry("dependencies", JObject(entries))
DevDependencies(entries) == Entry("devDependencies", JObject(entries))
ProjectPackages ==
    {JMalformed, JNull,
     JObject(<<Entry("main", JText(<<"i", "n", "d", "e", "x", ".", "j", "s">>))>>),
     JObject(<<Entry("main", JText(<<"l", "i", "b", ".", "j", "s">>)), Entry("bin", JText(<<"c", "l", "i", ".", "j", "s">>))>>),
     JObject(<<Entry("main", JText(<<"i", "n", "d", "e", "x", ".", "j", "s">>)),
               Entry("bin", JObject(<<Entry("a", JText(<<"c", "l", "i", ".", "j", "s">>)),
                                      Entry("b", JText(<<"i", "n", "d", "e", "x", ".", "j", "s">>))>>))>>),
     JObject(<<Dependencies(<<Entry("react", JText(<<"^", "1", "8">>)),
                              Entry("express", JText(<<"^", "4">>))>>),
               DevDependencies(<<Entry("jest", JText(<<"^", "2", "9">>))>>)>>),
     JObject(<<Dependencies(<<Entry("react", JText(<<>>))>>)>>),
     JObject(<<DevDependencies(<<Entry("react-dom", JText(<<"^", "1", "8">>)),
                                 Entry("webpack", JText(<<"*">>))>>)>>)}

InitProject ==
    /\ ext = ""
    /\ content = <<>>
    /\ content2 = <<>>
    /\ options = [showAst |-> FALSE]
    /\ result = NoResult
    /\ result2 = NoResult
    /\ pc = "edit"
    /\ dirPath = ProjectRoot
    /\ \E present \in SUBSET ProjectFiles, package \in SUBSET {PackagePath},
          text \in ProjectPackages :
           /\ disk = [files |-> [f \in present \cup package |-> 100 * Len(f)],
                      dirs |-> {ProjectRoot} \cup UNION {Ancestors(f) : f \in present},
                      denied |-> {},
                      text |-> [f \in package |-> text]]
           /\ files = sort(CHOOSE o \in Orders(present) : TRUE)
    /\ out = <<>>
    /\ env = NoEnv

\* One call analyzeProject(projectPath, files).
AnalyzeProject ==
    LET r == analyzeProject(dirPath, files, disk)
    IN  /\ pc = "edit"
        /\ result' = r.value
        /\ pc' = IF r.completion = "return" THEN "returned" ELSE "raised"
        /\ UNCHANGED <<ext, content, content2, options, result2, dirPath, disk, files, out, env>>

NextProject ==
    \/ AnalyzeProject

SpecProject == InitProject /\ [][NextProject]_vars

(***************************************************************************)
(* Properties of findEntryPoints and detectTechStack, checked under        *)
(* SpecProject.                                                            *)
(***************************************************************************)
Conventional ==
    {JText(e) : e \in {c \in Range(commonEntries) : join(dirPath, c) \in Range(files)}}
Declared ==
    IF ~PackageParses THEN {}
    ELSE LET main == get(PackageRead.value, "main")
             bin == get(PackageRead.value, "bin")
         IN  (IF main = JUndefined THEN {} ELSE {main}) \cup
             (IF bin.json = "string" THEN {bin}
              ELSE IF bin.json = "object"
              THEN {bin.entries[i].value : i \in DOMAIN bin.entries}
              ELSE {})
EntryIndex(e) == CHOOSE i \in DOMAIN commonEntries : JText(commonEntries[i]) = e

\* C18: findEntryPoints raises nothing and returns, without duplicates, the
\* conventional entries found in the file list, in the order of the fixed list,
\* followed by the 'main' value and the 'bin' values of a readable
\* package.json; without one, the conventional entries alone.
C18_EntryPoints ==
    pc \in {"returned", "raised"} =>
        /\ pc = "returned"
        /\ NoDuplicates(result.entryPoints)
        /\ Range(result.entryPoints) = Conventional \cup Declared
        /\ \A i, j \in DOMAIN result.entryPoints :
               (i < j /\ result.entryPoints[j] \in Conventional) =>
                   /\ result.entryPoints[i] \in Conventional
                   /\ EntryIndex(result.entryPoints[i]) < EntryIndex(result.entryPoints[j])
        /\ ~PackageParses => Range(result.entryPoints) = Conventional

C18_Witness ==
    /\ pc = "returned"
    /\ Conventional \cap Declared # {}
    /\ Declared \ Conventional # {}
    /\ Cardinality(Conventional) >= 2
    /\ Len(result.entryPoints) = Cardinality(Conventional \cup Declared)

CombinedNames ==
    {result.dependencies.dependencies.entries[i].key :
        i \in DOMAIN result.dependencies.dependencies.entries} \cup
    {result.dependencies.devDependencies.entries[i].key :
        i \in DOMAIN result.dependencies.devDependencies.entries}
ScannedExtensions == {extname(files[i]) : i \in DOMAIN files}

\* C19: techStack is the rule table filtered by its triggers, in table order: a
\* language tag is there exactly when one of its extensions occurs among the
\* files, a framework or tool tag exactly when one of its dependency names is
\* a key of dependencies or devDependencies, whatever the key maps to.
C19_TechStackByPresence ==
    pc = "returned" =>
        result.techStack =
            tags(SelectSeq(languageRules,
                           LAMBDA rule : rule.extensions \cap ScannedExtensions # {}))
            \o tags(SelectSeq(dependencyRules,
                              LAMBDA rule : rule.names \cap CombinedNames # {}))

(***************************************************************************)
(* The commands (src/src/commands/summary.js, module.js and the export     *)
(* command) with their collaborators summarizeWithAI and writeOutput.      *)
(* env is [apiKey, api, writable]: whether OPENAI_API_KEY is set, whether  *)
(* the API answers ("ok", "fails", "failsOnModule": it answers project     *)
(* requests only, or "failsOnIndex": it fails on the module request for    *)
(* a file index.js alone) and whether the output file can be written.  A rendered  *)
(* text is the record of what it is rendered from.  out is                 *)
(* [log, printed, file, exitCode]: the spinner and console events in       *)
(* order, the text printed, the file written and the exit code, 0 until    *)
(* process.exit(1); an export that succeeds adds requests, the files whose *)
(* summary it asked for.                                                        *)
(***************************************************************************)
NoFile == [none |-> TRUE]

\* getOpenAIClient and summarizeWithAI(data, type)
summarizeWithAI(data, type, e) ==
    IF ~e.apiKey
    THEN Raise(Error(<<"O", "P", "E", "N", "A", "I", "_", "A", "P", "I", "_", "K", "E", "Y", " ", "e", "n", "v", "i", "r", "o", "n", "m", "e", "n", "t", " ", "v", "a", "r", "i", "a", "b", "l", "e", " ", "i", "s", " ", "r", "e", "q", "u", "i", "r", "e", "d", " ", "f", "o", "r", " ", "A", "I", " ", "s", "u", "m", "m", "a", "r", "i", "z", "a", "t", "i", "o", "n", ".">>))
    ELSE IF \/ e.api = "fails"
            \/ e.api = "failsOnModule" /\ type = "module"
            \/ e.api = "failsOnIndex" /\ type = "module" /\ basename(data.filePath) = <<"i", "n", "d", "e", "x", ".", "j", "s">>
    THEN Raise(Error(<<"C", "o", "n", "n", "e", "c", "t", "i", "o", "n", " ", "e", "r", "r", "o", "r", ".">>))
    ELSE Return([json |-> "string", text |-> <<"s", "u", "m", "m", "a", "r", "y">>, of |-> type])

\* writeOutput(filePath, content)
writeOutput(filePath, text, e) ==
    IF e.writable THEN Return([path |-> filePath, content |-> text])
    ELSE Raise(ErrnoError(EACCES, filePath))

formatProjectSummary(analysis, aiSummary) ==
    [format |-> "projectSummary", analysis |-> analysis, aiSummary |-> aiSummary]
formatModuleSummary(parsed, aiSummary, opts) ==
    [format |-> "moduleSummary", parsed |-> parsed, aiSummary |-> aiSummary]
generateMarkdownDocs(opts) == [format |-> "markdown"] @@ opts

\* parseInt(text, 10) of a string of decimal digits
RECURSIVE parseInt(_)
parseInt(text) ==
    IF text = <<>> THEN 0
    ELSE 10 * parseInt(SubSeq(text, 1, Len(text) - 1))
         + (CHOOSE n \in 0..9 : ToString(n) = text[Len(text)])

\* the catch (error) of a command: spinner.fail and process.exit(1)
fail(log, printed) ==
    [log |-> Append(log, "fail"), printed |-> printed, file |-> NoFile, exitCode |-> 1]

\* the try around summarizeWithAI without its catch: the error is thrown on
summaryOrWarning_rethrow(summarized) ==
    IF summarized.completion = "throw" THEN summarized
    ELSE Return([aiSummary |-> summarized.value, log |-> <<>>])

\* let aiSummary = null; try { aiSummary = await summarizeWithAI(..) }
\* catch (err) { spinner.warn(..) }
summaryOrWarning(summarized) ==
    IF summarized.completion = "throw"
    THEN Return([aiSummary |-> JNull, log |-> <<"warn">>])
    ELSE Return([aiSummary |-> summarized.value, log |-> <<>>])

\* console.log of the text, then the write when options.output is given
showAndSave(log, text, opts, e) ==
    LET shown == log \o <<"succeed", "print">>
        written == writeOutput(opts.output, text, e)
    IN  IF "output" \notin DOMAIN opts
        THEN [log |-> shown, printed |-> text, file |-> NoFile, exitCode |-> 0]
        ELSE IF written.completion = "throw" THEN fail(shown, text)
        ELSE [log |-> Append(shown, "saved"), printed |-> text,
              file |-> written.value, exitCode |-> 0]

\* await: the continuation applied to the settled value
await(settled, then(_)) == CHOOSE r \in {then(v) : v \in {settled}} : TRUE

RECURSIVE someOrder(_)
someOrder(S) ==
    IF S = {} THEN <<>>
    ELSE LET first == CHOOSE x \in S : TRUE IN <<first>> \o someOrder(S \ {first})

\* the array glob resolves to: one of the orders of its matches
listed(path, opts, d) == someOrder(globbed(path, opts, d))

summaryCommand(targetPath, opts, d, e) ==
    LET scanOptions == [maxDepth |-> parseInt(opts.depth)]
        scanned == scanDirectory(targetPath, scanOptions, d,
                                 listed(targetPath, scanOptions, d))
        analysis == analyzeProject(targetPath, scanned.value, d)
        ai == IF opts.ai # FALSE
              THEN summaryOrWarning(summarizeWithAI(analysis.value, "project", e))
              ELSE Return([aiSummary |-> JNull, log |-> <<>>])
    IN  IF scanned.completion = "throw" THEN fail(<<>>, NoOutput)
        ELSE IF analysis.completion = "throw" THEN fail(<<>>, NoOutput)
        ELSE IF ai.completion = "throw" THEN fail(<<>>, NoOutput)
        ELSE showAndSave(ai.value.log,
                         formatProjectSummary(analysis.value, ai.value.aiSummary),
                         opts, e)

moduleCommand(file, opts, d, e) ==
    LET text == readFile(d, file)
        parsed == parseFile(Str(extname(file)), text.value, [showAst |-> opts.showAst])
        ai == summaryOrWarning(
                  summarizeWithAI([content |-> text.value, parsed |-> parsed.value,
                                   filePath |-> file], "module", e))
    IN  IF text.completion = "throw" THEN fail(<<>>, NoOutput)
        ELSE IF parsed.completion = "throw" THEN fail(<<>>, NoOutput)
        ELSE IF ai.completion = "throw" THEN fail(<<>>, NoOutput)
        ELSE showAndSave(ai.value.log,
                         formatModuleSummary(parsed.value, ai.value.aiSummary, opts),
                         opts, e)

endsWith(text, suffix) ==
    Len(text) >= Len(suffix) /\ StartsWithAt(text, Len(text) - Len(suffix) + 1, suffix)
slice(list, n) == SubSeq(list, 1, Min(n, Len(list)))
exportExtensions == {<<".", "j", "s">>, <<".", "t", "s">>, <<".", "j", "s", "x">>, <<".", "t", "s", "x">>, <<".", "p", "y">>, <<".", "r", "b">>, <<".", "g", "o">>}

RECURSIVE parseLoop(_, _, _)
\* step 2 of the export command: a file that cannot be read or parsed is skipped
parseLoop(codeFiles, parsedFiles, d) ==
    IF codeFiles = <<>> THEN parsedFiles
    ELSE LET file == Head(codeFiles)
             text == readFile(d, file)
             parsed == parseFile(Str(extname(file)), text.value, [showAst |-> FALSE])
         IN  IF text.completion = "throw" \/ parsed.completion = "throw"
             THEN parseLoop(Tail(codeFiles), parsedFiles, d)
             ELSE parseLoop(Tail(codeFiles),
                            Append(parsedFiles,
                                   [file |-> file, content |-> text.value,
                                    parsed |-> parsed.value]),
                            d)

RECURSIVE summaryLoop_abort(_, _, _)
\* mutant: the first summary that fails ends the loop
summaryLoop_abort(parsedFiles, step, e) ==
    IF parsedFiles = <<>> THEN step
    ELSE LET item == Head(parsedFiles)
             summary == summarizeWithAI([content |-> item.content, parsed |-> item.parsed,
                                         filePath |-> item.file], "module", e)
             asked == Append(step.requests, item.file)
         IN  IF summary.completion = "throw"
             THEN [fileSummaries |-> step.fileSummaries, requests |-> asked]
             ELSE summaryLoop_abort(Tail(parsedFiles),
                                    [fileSummaries |->
                                         Append(step.fileSummaries,
                                                [file |-> item.file,
                                                 summary |-> summary.value,
                                                 parsed |-> item.parsed]),
                                     requests |-> asked],
                                    e)

RECURSIVE summaryLoop(_, _, _)
\* the per-file summaries of step 3: a file whose summary fails is skipped.
\* step is [fileSummaries, requests], requests the files asked about so far
summaryLoop(parsedFiles, step, e) ==
    IF parsedFiles = <<>> THEN step
    ELSE LET item == Head(parsedFiles)
             summary == summarizeWithAI([content |-> item.content, parsed |-> item.parsed,
                                         filePath |-> item.file], "module", e)
             asked == Append(step.requests, item.file)
         IN  IF summary.completion = "throw"
             THEN summaryLoop(Tail(parsedFiles),
                              [fileSummaries |-> step.fileSummaries, requests |-> asked],
                              e)
             ELSE summaryLoop(Tail(parsedFiles),
                              [fileSummaries |->
                                   Append(step.fileSummaries,
                                          [file |-> item.file, summary |-> summary.value,
                                           parsed |-> item.parsed]),
                               requests |-> asked],
                              e)

\* steps 2 to 5 of the export command, after a scan that succeeded
exportSteps(opts, scanned, analysis, d, e) ==
    LET codeFiles == SelectSeq(scanned.value,
                               LAMBDA f : \E x \in exportExtensions : endsWith(f, x))
        project == summaryOrWarning(summarizeWithAI(analysis.value, "project", e))
    IN  IF analysis.completion = "throw" THEN fail(<<>>, NoOutput)
        ELSE IF project.completion = "throw" THEN fail(<<>>, NoOutput)
        ELSE await(parseLoop(slice(codeFiles, 20), <<>>, d), LAMBDA parsedFiles :
             await(IF project.value.log = <<>>
                   THEN summaryLoop(slice(parsedFiles, 10),
                                    [fileSummaries |-> <<>>, requests |-> <<>>], e)
                   ELSE [fileSummaries |-> <<>>, requests |-> <<>>], LAMBDA step :
             LET markdown == generateMarkdownDocs(
                                 [projectPath |-> opts.path, analysis |-> analysis.value,
                                  projectSummary |-> project.value.aiSummary,
                                  fileSummaries |-> step.fileSummaries,
                                  includeCode |-> opts.includeCode])
                 written == writeOutput(opts.output, markdown, e)
             IN  IF "output" \notin DOMAIN opts \/ written.completion = "throw"
                 THEN fail(project.value.log, NoOutput)
                 ELSE [log |-> project.value.log \o <<"succeed", "print">>,
                       printed |-> [documented |-> Len(parsedFiles),
                                    summaries |-> Len(step.fileSummaries)],
                       file |-> written.value, exitCode |-> 0,
                       requests |-> step.requests]))

exportCommand(opts, d, e) ==
    LET scanOptions == [maxDepth |-> 5]
    IN  await(scanDirectory(opts.path, scanOptions, d, listed(opts.path, scanOptions, d)),
              LAMBDA scanned :
        IF scanned.completion = "throw" THEN fail(<<>>, NoOutput)
        ELSE await(analyzeProject(opts.path, scanned.value, d), LAMBDA analysis :
             exportSteps(opts, scanned, analysis, d, e)))

(***************************************************************************)
(* SpecCmd: one command run on the project /w.                             *)
(***************************************************************************)
IndexPath == <<"/", "w", "/", "i", "n", "d", "e", "x", ".", "j", "s">>
LibPath == <<"/", "w", "/", "l", "i", "b", ".", "j", "s">>
ReadmePath == <<"/", "w", "/", "R", "E", "A", "D", "M", "E", ".", "m", "d">>
IndexText ==
    <<Comment(TRUE),
      ExportNamedDeclaration(
          FunctionDeclaration(Identifier("f"), <<Identifier("a")>>, <<>>), <<>>)>>
LibText == <<Comment(FALSE), Bad>>
\* more code files than the export command summarizes
RubyPaths == {<<"/", "w", "/", "m">> \o <<ToString(n)>> \o <<".", "r", "b">> : n \in 0..9}
CommandOptions ==
    {[command |-> command, depth |-> <<"3">>, showAst |-> FALSE, includeCode |-> FALSE,
      path |-> ProjectRoot] @@ ai @@ output :
        command \in {"summary", "module", "export"},
        ai \in {[ai |-> TRUE], [ai |-> FALSE]},
        output \in {<<>>, [output |-> <<"/", "w", "/", "o", "u", "t", ".", "m", "d">>]}}
Environments ==
    [apiKey : BOOLEAN, api : {"ok", "fails", "failsOnModule", "failsOnIndex"},
     writable : BOOLEAN]

InitCmd ==
    /\ ext = ""
    /\ content = <<>>
    /\ content2 = <<>>
    /\ options \in CommandOptions
    /\ result = NoResult
    /\ result2 = NoResult
    /\ pc = "edit"
    /\ dirPath = ProjectRoot
    /\ \E present \in {{}, {ReadmePath}, {IndexPath, LibPath, ReadmePath},
                         {IndexPath, LibPath, ReadmePath} \cup RubyPaths},
          denied \in SUBSET {LibPath} :
           disk = [files |-> [f \in present |-> 100 * Len(f)],
                   dirs |-> UNION {Ancestors(f) : f \in present},
                   denied |-> denied \cap present,
                   text |-> [f \in present |->
                                IF f = IndexPath THEN IndexText
                                ELSE IF f = LibPath THEN LibText
                                ELSE <<"#", " ", "w">>]]
    /\ files = <<>>
    /\ out = NoOutput
    /\ env \in Environments

Run(command, effects) ==
    /\ pc = "edit"
    /\ options.command = command
    /\ out' = effects
    /\ pc' = "exited"
    /\ UNCHANGED <<parserVars, dirPath, disk, files, env>>

\* briefly summary <path>, briefly module <file>, briefly export
SummaryCommand == Run("summary", summaryCommand(dirPath, options, disk, env))
ModuleCommand == Run("module", moduleCommand(IndexPath, options, disk, env))
ExportCommand == Run("export", exportCommand(options, disk, env))

NextCmd ==
    \/ SummaryCommand
    \/ ModuleCommand
    \/ ExportCommand

SpecCmd == InitCmd /\ [][NextCmd]_vars

(***************************************************************************)
(* Properties of the commands, checked under SpecCmd.                      *)
(***************************************************************************)
RootIsDirectory ==
    stat(disk, dirPath).completion = "return" /\ stat(disk, dirPath).value.isDirectory
OutputRequested == "output" \in DOMAIN options
\* a failure of the run that is not the summarizer's
OtherFailure ==
    CASE options.command = "summary" ->
             ~RootIsDirectory \/ (OutputRequested /\ ~env.writable)
      [] options.command = "module" ->
             readFile(disk, IndexPath).completion = "throw"
             \/ (OutputRequested /\ ~env.writable)
      [] options.command = "export" ->
             ~RootIsDirectory \/ ~OutputRequested \/ ~env.writable
SummarizerAsked == options.command = "summary" => options.ai # FALSE
SummarizerFails(type) ==
    \/ ~env.apiKey
    \/ env.api = "fails"
    \/ env.api \in {"failsOnModule", "failsOnIndex"} /\ type = "module"
FirstRequest == IF options.command = "module" THEN "module" ELSE "project"
SummaryShown ==
    IF options.command = "export" THEN out.file.content.projectSummary
    ELSE out.printed.aiSummary

\* C20: a failure of the AI summarizer never ends a summary, module or export
\* command: the run takes the error exit only for another failure, and
\* without one it emits its output with no summary, and writes the output
\* file when one is requested.
C20_SummarizerFailureNotFatal ==
    pc = "exited" =>
        /\ out.exitCode = 1 => OtherFailure
        /\ ~OtherFailure =>
               /\ out.exitCode = 0
               /\ "print" \in Range(out.log)
               /\ OutputRequested =>
                      (out.file # NoFile /\ out.file.path = options.output)
               /\ (SummarizerAsked /\ SummarizerFails(FirstRequest)) =>
                      ("warn" \in Range(out.log) /\ SummaryShown = JNull)

C20_Witness ==
    /\ pc = "exited"
    /\ options.command = "summary"
    /\ options.ai
    /\ ~env.apiKey
    /\ OutputRequested
    /\ out.log = <<"warn", "succeed", "print", "saved">>
    /\ out.exitCode = 0
    /\ out.file.content.aiSummary = JNull

(***************************************************************************)
(* Properties of the export command, checked under SpecCmd.                *)
(***************************************************************************)
ExportDone == options.command = "export" /\ pc = "exited" /\ out.exitCode = 0
\* the files of the scan that step 2 selects for extraction
CodeFiles ==
    {f \in globbed(options.path, [maxDepth |-> 5], disk) :
        \E x \in exportExtensions : endsWith(f, x)}
Unreadable == {f \in CodeFiles : readFile(disk, f).completion = "throw"}

\* C21: the parse loop of the export command produces one record for each of
\* the code files it selects (20 at most), whatever goes wrong with a file:
\* the run reports as many documented files as it selected.
C21_RecordPerCodeFile ==
    ExportDone => out.printed.documented = Min(20, Cardinality(CodeFiles))

(***************************************************************************)
(* Properties of the VariableDeclaration visitor, checked under Spec.      *)
(***************************************************************************)
\* the variable declarations of the content with the line they start on
DeclarationsOf(items) ==
    {[node |-> items[i], line |-> i] :
        i \in {j \in 1..Len(items) : items[j].type = "VariableDeclaration"}}
    \cup {[node |-> items[i].declaration, line |-> i] :
            i \in {j \in 1..Len(items) :
                     /\ items[j].type = "ExportNamedDeclaration"
                     /\ items[j].declaration.type = "VariableDeclaration"}}
\* their declarators with a plain identifier as target
Declarators(items) ==
    UNION {{[decl |-> d.node.declarations[i], kind |-> d.node.kind, line |-> d.line] :
               i \in {j \in 1..Len(d.node.declarations) :
                        d.node.declarations[j].id.type = "Identifier"}} :
           d \in DeclarationsOf(items)}
FunctionInit(d) == d.decl.init.type \in {"ArrowFunctionExpression", "FunctionExpression"}
\* the positions of the records a declarator has in a list
RecordsOf(d, list) ==
    {i \in 1..Len(list) : list[i].name = d.decl.id.name /\ list[i].line = d.line}
Assigned(list) == {i \in 1..Len(list) : "arrow" \in DOMAIN list[i]}

\* C22: after a successful parse every declarator with an identifier target
\* has exactly one record, in functions (none in variables) when its
\* initializer is a function or arrow expression and in variables (none among
\* the functions that come from declarators) otherwise; these are all the
\* records of variables and all the assigned functions, and the exported flag
\* of an assigned function is the membership of its name among the exports'
\* names, as for a declared function.
C22_OneRecordPerDeclarator ==
    Parsed =>
        /\ \A d \in Declarators(content) :
              LET fs == RecordsOf(d, result.functions) \cap Assigned(result.functions)
                  vs == RecordsOf(d, result.variables)
              IN  IF FunctionInit(d)
                  THEN Cardinality(fs) = 1 /\ vs = {}
                  ELSE Cardinality(vs) = 1 /\ fs = {}
        /\ Cardinality(Assigned(result.functions))
               = Cardinality({d \in Declarators(content) : FunctionInit(d)})
        /\ Len(result.variables)
               = Cardinality({d \in Declarators(content) : ~FunctionInit(d)})
        /\ \A i \in Assigned(result.functions) :
              /\ "exported" \in DOMAIN result.functions[i]
              /\ result.functions[i].exported
                     <=> result.functions[i].name \in {e.name : e \in Range(result.exports)}

C22_Witness ==
    /\ Parsed
    /\ \E d \in DeclarationsOf(content) : Len(d.node.declarations) = 2
    /\ \E i \in Assigned(result.functions) :
          result.functions[i].exported /\ ~result.functions[i].arrow
    /\ \E v \in Range(result.variables) : v.kind = "let"

(***************************************************************************)
(* Properties of the class and import lines of parsePython, checked under  *)
(* SpecPy.                                                                 *)
(***************************************************************************)
ClassesAt(i) == {r \in Range(result.classes) : r.line = i}
ImportsAt(i) == {r \in Range(result.imports) : r.line = i}

\* C23: a class line yields one classes record whose superClass is the first
\* base of the parenthesized base list, also when the list has several bases,
\* and is undefined when the line has no base list.
C23_FirstBaseIsParent ==
    pc = "returned" =>
        \A i \in 1..Len(content) :
            \A c \in PyClasses :
                content[i] = c.text =>
                    ClassesAt(i) = {[name |-> "A", superClass |-> c.first, line |-> i]}

\* C24: an import statement yields one imports record whose source is the
\* module the statement names first, for `from X import Y`, `import X`,
\* `import X as Z` and `import X, W` alike.
C24_ModuleAlone ==
    pc = "returned" =>
        \A i \in 1..Len(content) :
            \A m \in PyImports :
                content[i] = m.text =>
                    ImportsAt(i) = {[source |-> m.module, line |-> i]}

\* the directory segments of a path: all its segments but the file name
Segments(file) == split(file, "/")
DirectorySegments(file) == Range(SubSeq(Segments(file), 1, Len(Segments(file)) - 1))
DottedMarker(file) ==
    includes(file, <<".", "t", "e", "s", "t", ".">>) \/ includes(file, <<".", "s", "p", "e", "c", ".">>)
TestDirectory(file) ==
    DirectorySegments(file) \cap {<<"t", "e", "s", "t">>, <<"t", "e", "s", "t", "s">>, <<"_", "_", "t", "e", "s", "t", "s", "_", "_">>} # {}

\* C25: a path is in tests only when it has a dot-delimited 'test' or 'spec'
\* infix or a directory segment named exactly test, tests or __tests__; a path
\* under a directory whose name merely ends in 'test', such as latest/, goes
\* to the list of a later rule.
C25_TestsOnlyByMarker ==
    pc = "returned" =>
        \A f \in Range(result.tests) : DottedMarker(f) \/ TestDirectory(f)

(***************************************************************************)
(* Properties of analyzeStructure, checked under SpecProject.              *)
(***************************************************************************)
RelativePaths == {relative(dirPath, files[i]) : i \in DOMAIN files}
Separators(path) == {k \in 1..Len(path) : path[k] = "/"}
\* the directories a relative path lies in: what precedes one of its separators
PrefixDirectories(path) == {SubSeq(path, 1, k - 1) : k \in Separators(path)}
SegmentCount(path) == Cardinality(Separators(path)) + 1

\* C26: the directories of the structure are, sorted and without duplicates,
\* exactly the strict-prefix directories of the files' root-relative paths,
\* and depth is the largest number of segments of such a path, file name
\* included, 0 for an empty list.
C26_Structure ==
    pc = "returned" =>
        /\ Range(result.structure.directories)
               = UNION {PrefixDirectories(p) : p \in RelativePaths}
        /\ IsSorted(result.structure.directories)
        /\ NoDuplicates(result.structure.directories)
        /\ result.structure.depth = MaxOver({0} \cup {SegmentCount(p) : p \in RelativePaths})
        /\ files = <<>> => result.structure.depth = 0

C26_Witness ==
    /\ pc = "returned"
    /\ result.structure.directories = <<<<"c", "m", "d">>, <<"s", "r", "c">>, <<"s", "r", "c", "-", "x">>, <<"s", "r", "c", "/", "l", "i", "b">>>>
    /\ result.structure.depth = 3
    /\ Len(files) > 4

(***************************************************************************)
(* The frame of a failed probe, checked under SpecDeps.                    *)
(***************************************************************************)
\* the package.json probe succeeds: the file is read, parses and is a value
\* whose properties can be read
PackageUsable == PackageParses /\ JSONparse(PackageRead.value).value.json # "null"

\* C27: a failed probe leaves the result as it was: manager is 'npm' only with
\* the mappings of a package.json that was read and parsed, and when the three
\* probes fail, a package.json holding `null` included, the result is manager
\* null with both mappings empty.
C27_FailedProbeLeavesResult ==
    pc = "returned" =>
        /\ result.manager = "npm" =>
               /\ PackageUsable
               /\ result.dependencies =
                      orElse(get(PackageRead.value, "dependencies"), EmptyObject)
               /\ result.devDependencies =
                      orElse(get(PackageRead.value, "devDependencies"), EmptyObject)
        /\ (~PackageUsable /\ ~RequirementsReadable /\ ~PyprojectExists) =>
               result = noDependencies

\* C28: the six lists partition the input: each list is the input restricted
\* to the paths it holds, in input order and with their multiplicity, no path
\* is in two lists, every input path is in one, and the lengths add up to the
\* length of the input.
C28_Partition ==
    pc = "returned" =>
        /\ DOMAIN result = Range(Categories)
        /\ \A c \in Range(Categories) :
              result[c] = SelectSeq(files, LAMBDA f : f \in Range(result[c]))
        /\ \A c, d \in Range(Categories) :
              c # d => Range(result[c]) \cap Range(result[d]) = {}
        /\ UNION {Range(result[c]) : c \in Range(Categories)} = Range(files)
        /\ SumOver([c \in Range(Categories) |-> Len(result[c])], Range(Categories))
               = Len(files)

C28_Witness ==
    /\ pc = "returned"
    /\ Len(files) = 2
    /\ files[1] = files[2]
    /\ result.tests = files

\* the parsed files in the order of the scan, and the ones step 3 may ask about
ParsedFiles == sort(someOrder(CodeFiles \ Unreadable))
Summarizable == SubSeq(ParsedFiles, 1, Min(10, Len(ParsedFiles)))
ModuleFails(file) ==
    \/ SummarizerFails("project")
    \/ env.api = "failsOnModule"
    \/ env.api = "failsOnIndex" /\ file = IndexPath
ExportRuns == RootIsDirectory /\ OutputRequested /\ env.writable

\* C29: the export command asks for per-file summaries only after its project
\* request succeeded.  When that request fails no file is asked about, the
\* list of file summaries is empty and the Markdown is written all the same;
\* when it succeeds the first 10 parsed files at most are asked about, in
\* order, and the list holds, in order, those whose request succeeded.
C29_FileSummariesAfterProject ==
    (pc = "exited" /\ options.command = "export" /\ ExportRuns) =>
        /\ out.exitCode = 0
        /\ out.file.path = options.output
        /\ IF SummarizerFails("project")
           THEN /\ out.requests = <<>>
                /\ out.file.content.fileSummaries = <<>>
                /\ out.file.content.projectSummary = JNull
           ELSE /\ out.requests = Summarizable
                /\ [i \in DOMAIN out.file.content.fileSummaries |->
                       out.file.content.fileSummaries[i].file]
                       = SelectSeq(Summarizable, LAMBDA f : ~ModuleFails(f))
                /\ out.file.content.projectSummary # JNull

C29_Witness ==
    /\ ExportDone
    /\ env.api = "failsOnIndex"
    /\ Len(ParsedFiles) > 10
    /\ Len(out.requests) = 10
    /\ out.requests[1] = IndexPath
    /\ Len(out.file.content.fileSummaries) = 9
    /\ out.file.content.fileSummaries[1].file = LibPath

====
